---- MODULE Spec2Model ----
(***************************************************************************)
(* A model of ghost-form's FormEngine (core.ts) and of the path utilities  *)
(* it uses (utils.ts).                                                     *)
(*                                                                         *)
(* JavaScript values are records: Undefined, Prim(n) for a primitive, and   *)
(* Obj(ref, props) for a plain object, where ref is the object's identity   *)
(* (what === compares) and props maps its own keys to values.  A dotted     *)
(* path "a.b" is the sequence <<"a", "b">> of its segments.                 *)
(* Arrays and numeric path segments are outside the inputs the model draws. *)
(***************************************************************************)
EXTENDS Integers, Sequences, FiniteSets, TLC

VARIABLES
    config,         \* the FormConfig the engine was constructed with
    initialValues,  \* FormEngine.initialValues
    values,         \* FormEngine.values
    fields,         \* FormEngine.fields: path -> FieldState
    status,         \* FormEngine.status
    listeners,      \* FormEngine.listeners (whole-form callbacks)
    fieldListeners, \* FormEngine.fieldListeners: path -> set of callbacks
    stored,         \* the storage backend's entry under the engine's key
    pendingLoad,    \* an asynchronous getItem that has not settled yet
    submits,        \* handleSubmit calls suspended at "await onValid"
    handles         \* the unsubscribe closures issued and the Set each captured

vars == <<config, initialValues, values, fields, status, listeners,
          fieldListeners, stored, pendingLoad, submits, handles>>

(***************************************************************************)
(* Bounds of the model.                                                    *)
(***************************************************************************)
MaxPrim == 2        \* primitives are 1..MaxPrim
MaxSubmits == 1     \* handleSubmit calls in flight
MaxSubmitCount == 1 \* handleSubmit calls since construction or the last reset
MaxHandles == 3     \* unsubscribe closures issued since construction

Keys == {"a", "b"}

KeyIndex(k) == IF k = "a" THEN 1 ELSE 2

\* The paths the operations are called with.  The engine's loops over its
\* Map of fields run in insertion order; the model runs them in this fixed
\* order, the effect of a loop body on one entry being independent of the
\* other entries.
PathOrder == << <<"a">>, <<"a", "b">>, <<"b">> >>

PathSet == {PathOrder[i] : i \in 1 .. Len(PathOrder)}

(***************************************************************************)
(* Values.                                                                 *)
(***************************************************************************)
Undefined == [t |-> "undef"]

Prim(n) == [t |-> "prim", v |-> n]

Obj(r, p) == [t |-> "obj", ref |-> r, props |-> p]

NoProps == [k \in {} |-> Undefined]

IsObj(v) == v.t = "obj"

\* JavaScript truthiness: undefined and 0 are falsy, objects are truthy.
Truthy(v) == IsObj(v) \/ (v.t = "prim" /\ v.v # 0)

\* current[key]: a property read on any value.
Prop(v, k) == IF IsObj(v) /\ k \in DOMAIN v.props THEN v.props[k] ELSE Undefined

\* a === b
StrictEq(a, b) ==
    IF IsObj(a) /\ IsObj(b) THEN a.ref = b.ref
    ELSE IF IsObj(a) \/ IsObj(b) THEN FALSE
    ELSE a = b

\* { ...current, [key]: value } as a new object with identity r.
Spread(current, k, value, r) ==
    LET old == IF IsObj(current) THEN current.props ELSE NoProps
    IN  Obj(r, [x \in (DOMAIN old) \cup {k} |-> IF x = k THEN value ELSE old[x]])

RECURSIVE getByPath(_, _)
getByPath(obj, path) ==
    IF path = <<>> THEN obj
    ELSE IF obj.t = "undef" THEN Undefined
    ELSE getByPath(Prop(obj, Head(path)), Tail(path))

RECURSIVE deepEqual(_, _)
deepEqual(a, b) ==
    IF StrictEq(a, b) THEN TRUE
    ELSE IF IsObj(a) /\ IsObj(b)
         THEN /\ Cardinality(DOMAIN a.props) = Cardinality(DOMAIN b.props)
              /\ \A k \in DOMAIN a.props :
                    /\ k \in DOMAIN b.props
                    /\ deepEqual(a.props[k], b.props[k])
         ELSE FALSE

\* The identities of the copy are r for the root and, for the child under
\* key k of the node numbered c, c * (|Keys| + 1) + KeyIndex(k): all distinct.
RECURSIVE CloneAt(_, _, _)
CloneAt(v, base, c) ==
    IF IsObj(v)
    THEN Obj(base + c,
             [k \in DOMAIN v.props |->
                 CloneAt(v.props[k], base, c * (Cardinality(Keys) + 1) + KeyIndex(k))])
    ELSE v

\* A deepClone that hands back the object it was given.
deepClone_Shares(obj, base) == obj

deepClone(obj, base) == CloneAt(obj, base, 0)

\* The recursive helper `update` of setByPathImmutable.  Level `index` may
\* create two objects: identities base + 2 * index and base + 2 * index + 1.
RECURSIVE update(_, _, _, _, _)
update(current, path, index, value, base) ==
    LET key == path[index]
        isLast == index = Len(path)
    IN  IF isLast
        THEN IF Truthy(current) /\ StrictEq(Prop(current, key), value)
             THEN current
             ELSE Spread(current, key, value, base + 2 * index)
        ELSE LET nextCurrent == IF Truthy(current) /\ Truthy(Prop(current, key))
                                THEN Prop(current, key)
                                ELSE Obj(base + 2 * index + 1, NoProps)
                 updatedNext == update(nextCurrent, path, index + 1, value, base)
             IN  IF Truthy(current) /\ StrictEq(Prop(current, key), updatedNext)
                 THEN current
                 ELSE Spread(current, key, updatedNext, base + 2 * index)

setByPathImmutable(obj, path, value, base) ==
    IF path = <<>> THEN value ELSE update(obj, path, 1, value, base)

\* All proper ancestors of a path, shortest first.
getParentPaths(path) == [i \in 1 .. (Len(path) - 1) |-> SubSeq(path, 1, i)]

(***************************************************************************)
(* Object identities.  A fresh identity is one above every identity the    *)
(* store or the operation in progress holds.  After each operation the     *)
(* identities in the state are renumbered in the order in which a walk of  *)
(* the state first meets them, which keeps every === comparison between    *)
(* them and keeps the state space finite.                                  *)
(***************************************************************************)
RECURSIVE RefsOf(_)
RefsOf(v) ==
    IF IsObj(v)
    THEN {v.ref} \cup UNION {RefsOf(v.props[k]) : k \in DOMAIN v.props}
    ELSE {}

SetMax(S) == IF S = {} THEN 0 ELSE CHOOSE x \in S : \A y \in S : y <= x

\* The identities in v, parent before children, key "a" before key "b".
RECURSIVE RefSeq(_)
RefSeq(v) ==
    IF IsObj(v)
    THEN <<v.ref>> \o RefSeq(Prop(v, "a")) \o RefSeq(Prop(v, "b"))
    ELSE << >>

FirstAt(seq, r) == CHOOSE i \in 1 .. Len(seq) : seq[i] = r /\ \A j \in 1 .. (i - 1) : seq[j] # r

\* v with each identity replaced by its rank of first occurrence in seq.
\* Identity 0 is the identity of the objects the caller holds (the literals
\* of the configuration) and is kept.
RECURSIVE Rename(_, _)
Rename(v, seq) ==
    IF IsObj(v)
    THEN Obj(IF v.ref = 0 THEN 0 ELSE Cardinality({seq[j] : j \in 1 .. FirstAt(seq, v.ref)}),
             [k \in DOMAIN v.props |-> Rename(v.props[k], seq)])
    ELSE v

(***************************************************************************)
(* JSON.  A serialized tree is the tree without identities and without the *)
(* properties whose value is undefined; NoItem is the backend's null.      *)
(***************************************************************************)
NoItem == [t |-> "null"]

RECURSIVE stringify(_)
stringify(v) ==
    IF IsObj(v)
    THEN Obj(0, [k \in {x \in DOMAIN v.props : v.props[x] # Undefined} |->
                    stringify(v.props[k])])
    ELSE v

parse(text, base) == deepClone(text, base)

\* An entry that is not JSON: JSON.parse throws on it.
Garbage == [t |-> "garbage"]

Parses(text) == text # Garbage

\* JSON.stringify(v).length for a serialized tree: keys have one character
\* and primitives one digit.
RECURSIVE JsonLength(_)
JsonLength(v) ==
    IF IsObj(v)
    THEN LET len(k) == IF k \in DOMAIN v.props THEN 4 + JsonLength(v.props[k]) ELSE 0
             n == Cardinality(DOMAIN v.props)
         IN  2 + len("a") + len("b") + (IF n > 1 THEN n - 1 ELSE 0)
    ELSE 1

\* A storage key: a text followed by the decimal digits of the numbers in suffix.
StorageKey(text, suffix) == [text |-> text, suffix |-> suffix]

(***************************************************************************)
(* The store: one record holding the FormEngine instance, the storage      *)
(* entry and `log`, the trace of the operation in progress: the listener   *)
(* invocations, storage calls and submit callbacks it made, in order.      *)
(***************************************************************************)
NoError == "undefined"

TooYoung == "Too young"

ZeroStatus ==
    [isValid |-> TRUE, isSubmitting |-> FALSE, isValidating |-> FALSE,
     isDirty |-> FALSE, submitCount |-> 0, errors |-> << >>]

NoErrors == << >>

HasField(s, path) == path \in DOMAIN s.fields

FieldOf(s, path) == s.fields[path]

\* The identity of the record the map holds for path: 0 for the record that
\* was there when the operation started, the rank of its creation for a
\* record the operation created.
IdOf(s, path) == IF path \in DOMAIN s.ids THEN s.ids[path] ELSE 0

\* this.fields.set(path, st) that assigns to the object the map holds
\* instead of installing a new one.
FieldsSet_InPlace(s, path, st) ==
    [s EXCEPT !.fields = [p \in (DOMAIN @) \cup {path} |-> IF p = path THEN st ELSE @[p]],
              !.ids = IF path \in DOMAIN s.fields THEN @
                      ELSE [p \in (DOMAIN @) \cup {path} |->
                               IF p = path THEN SetMax({0} \cup {s.ids[q] : q \in DOMAIN s.ids}) + 1
                               ELSE @[p]]]

\* this.fields.set(path, st): st is always a new object literal.
FieldsSet(s, path, st) ==
    [s EXCEPT !.fields = [p \in (DOMAIN @) \cup {path} |-> IF p = path THEN st ELSE @[p]],
              !.ids = [p \in (DOMAIN @) \cup {path} |->
                          IF p = path THEN SetMax({0} \cup {s.ids[q] : q \in DOMAIN s.ids}) + 1
                          ELSE @[p]]]

StoreRefs(s) ==
    RefsOf(s.initialValues) \cup RefsOf(s.values)
        \cup UNION {RefsOf(s.fields[p].value) : p \in DOMAIN s.fields}
        \cup UNION {RefsOf(s.log[i].st.value) : i \in {j \in 1 .. Len(s.log) : s.log[j].k = "field"}}

NextRef(s) == SetMax(StoreRefs(s)) + 1

getValue(s, path) == getByPath(s.values, path)

\* getFieldState as a state change: the entry is created on first access.
ensureFieldState(s, path) ==
    IF HasField(s, path) THEN s
    ELSE LET value == getValue(s, path)
             initialValue == getByPath(s.initialValues, path)
         IN  FieldsSet(s, path,
                 [value |-> value, error |-> NoError,
                  isDirty |-> ~deepEqual(value, initialValue),
                  isTouched |-> FALSE, isValid |-> TRUE])

Emit(s, e) == [s EXCEPT !.log = Append(@, e)]

\* What a listener can read from the store while it is invoked: getValues,
\* the cached records and getFormStatus.
View(s) == [values |-> s.values, fields |-> s.fields, status |-> s.status]

notifyForm(s) ==
    IF s.listeners = {} THEN s
    ELSE Emit(s, [k |-> "form", to |-> s.listeners, status |-> s.status, seen |-> View(s)])

notifyField(s, path) ==
    IF path \in DOMAIN s.fieldListeners
    THEN LET s1 == ensureFieldState(s, path)
         IN  Emit(s1, [k |-> "field", path |-> path, to |-> s1.fieldListeners[path],
                       st |-> FieldOf(s1, path), rid |-> IdOf(s1, path), seen |-> View(s1)])
    ELSE s

getStorageKey(s) ==
    StorageKey("ghost-form-", <<JsonLength(stringify(s.config.initialValues))>>)

\* An exception left the operation whose trace s holds.
Thrown(s) == \E i \in 1 .. Len(s.log) : s.log[i].k = "throw"

\* A catch block took the exception and logged it with `how`.
Caught(s, how) ==
    [s EXCEPT !.log = [i \in 1 .. Len(@) |-> IF @[i].k = "throw" THEN [k |-> how] ELSE @[i]]]

\* saveToStorage without its try/catch.
saveToStorage_Throws(s) ==
    IF s.config.storage = "none" THEN s
    ELSE LET item == stringify(s.values)
             call == Emit(s, [k |-> "save", key |-> getStorageKey(s), item |-> item])
         IN  IF "setItem" \in s.config.fails THEN Emit(call, [k |-> "throw"])
             ELSE [call EXCEPT !.stored = item]

\* saveToStorage that writes nothing.
saveToStorage_Skips(s) == s

\* The backend's setItem throws when config.fails holds "setItem".
saveToStorage(s) ==
    IF s.config.storage = "none" THEN s
    ELSE LET item == stringify(s.values)
             call == Emit(s, [k |-> "save", key |-> getStorageKey(s), item |-> item])
         IN  IF "setItem" \in s.config.fails THEN Emit(call, [k |-> "console.warn"])
             ELSE [call EXCEPT !.stored = item]

\* The backend's removeItem throws when config.fails holds "removeItem".
clearStorage(s) ==
    IF s.config.storage = "none" THEN s
    ELSE LET call == Emit(s, [k |-> "remove", key |-> getStorageKey(s)])
         IN  IF "removeItem" \in s.config.fails THEN Emit(call, [k |-> "throw"])
             ELSE [call EXCEPT !.stored = NoItem]

\* The configured validation function on a value tree (an empty mapping
\* when none is configured).  It either lists the failing paths only,
\*     values => values.a.b < 2 ? { 'a.b': 'Too young' } : {}
\* or, when config.explicit, lists the path it checks with an undefined
\* message when it passes (Record<string, string | undefined>):
\*     values => ({ 'a.b': values.a.b < 2 ? 'Too young' : undefined })
validate(s) ==
    LET b == getByPath(s.values, <<"a", "b">>)
    IN  IF s.config.validate /\ b.t = "prim" /\ b.v < 2
        THEN [p \in {<<"a", "b">>} |-> TooYoung]
        ELSE IF s.config.validate /\ s.config.explicit
        THEN [p \in {<<"a", "b">>} |-> NoError]
        ELSE NoErrors

\* A call of config.validate, recorded in the trace.
Validated(s) == Emit(s, [k |-> "validate", values |-> s.values])

ErrorAt(errors, path) == IF path \in DOMAIN errors THEN errors[path] ELSE NoError

\* updateIsDirty that leaves the flag as it is.
updateIsDirty_Skips(s) == s

updateIsDirty(s) ==
    LET isDirty == ~deepEqual(s.values, s.initialValues)
    IN  IF s.status.isDirty # isDirty THEN [s EXCEPT !.status.isDirty = isDirty] ELSE s

RECURSIVE validateAllLoop(_, _, _)
validateAllLoop(s, errors, i) ==
    IF i > Len(PathOrder) THEN s
    ELSE IF ~HasField(s, PathOrder[i]) THEN validateAllLoop(s, errors, i + 1)
    ELSE LET path == PathOrder[i]
             field == s.fields[path]
             error == ErrorAt(errors, path)
         IN  IF field.error # error
             THEN validateAllLoop(
                      notifyField(
                          FieldsSet(s, path,
                              [field EXCEPT !.error = error, !.isValid = (error = NoError)]),
                          path),
                      errors, i + 1)
             ELSE validateAllLoop(s, errors, i + 1)

\* config.validate throws when config.throws.
validateAll(s) ==
    LET errors == validate(s)
        isValid == Cardinality(DOMAIN errors) = 0
        s0 == IF s.config.validate THEN Validated(s) ELSE s
        s1 == IF s0.status.errors # errors \/ s0.status.isValid # isValid
              THEN [s0 EXCEPT !.status.errors = errors, !.status.isValid = isValid]
              ELSE s0
    IN  IF s.config.validate /\ s.config.throws THEN Emit(s0, [k |-> "throw"])
        ELSE validateAllLoop(s1, errors, 1)

validateField(s, path) ==
    LET errors == validate(s)
        error == ErrorAt(errors, path)
        s1 == ensureFieldState(IF s.config.validate THEN Validated(s) ELSE s, path)
        field == FieldOf(s1, path)
        isValid == error = NoError
    IN  IF s.config.validate /\ s.config.throws THEN Emit(Validated(s), [k |-> "throw"])
        ELSE IF field.error # error \/ field.isValid # isValid
        THEN LET s2 == FieldsSet(s1, path, [field EXCEPT !.error = error, !.isValid = isValid])
                 newErrors == IF error # NoError
                              THEN [p \in (DOMAIN s2.status.errors) \cup {path} |->
                                       IF p = path THEN error ELSE s2.status.errors[p]]
                              ELSE [p \in (DOMAIN s2.status.errors) \ {path} |->
                                       s2.status.errors[p]]
                 isFormValid == Cardinality(DOMAIN newErrors) = 0
             IN  IF s2.status.isValid # isFormValid \/ s2.status.errors # newErrors
                 THEN [s2 EXCEPT !.status.errors = newErrors, !.status.isValid = isFormValid]
                 ELSE s2
        ELSE s1

(***************************************************************************)
(* Public operations, as functions from store to store.                    *)
(***************************************************************************)
\* The loop of setValue over the tracked fields other than the written one.
RECURSIVE syncTrackedFields(_, _, _)
syncTrackedFields(s, path, i) ==
    IF i > Len(PathOrder) THEN s
    ELSE IF ~HasField(s, PathOrder[i]) \/ PathOrder[i] = path
    THEN syncTrackedFields(s, path, i + 1)
    ELSE LET fieldPath == PathOrder[i]
             fieldState == s.fields[fieldPath]
             currentVal == getByPath(s.values, fieldPath)
         IN  IF ~StrictEq(currentVal, fieldState.value)
             THEN LET initialVal == getByPath(s.initialValues, fieldPath)
                  IN  syncTrackedFields(
                          notifyField(
                              FieldsSet(s, fieldPath,
                                  [fieldState EXCEPT !.value = currentVal,
                                                     !.isDirty = ~deepEqual(currentVal, initialVal)]),
                              fieldPath),
                          path, i + 1)
             ELSE syncTrackedFields(s, path, i + 1)

\* A setValue that validates in every mode.
ValidatesOnChange_Always(s) == TRUE

ValidatesOnChange(s) == s.config.mode \in {"onChange", "all"}

ValidatesOnBlur(s) == s.config.mode \in {"onBlur", "all"}

\* writeValue that invokes the whole-form listeners before the listeners of
\* the written path.
writeValue_FormFirst(s, path, value) ==
    LET base == SetMax(StoreRefs(s) \cup RefsOf(value))
        s1 == [s EXCEPT !.values = setByPathImmutable(s.values, path, value, base)]
        s2 == syncTrackedFields(s1, path, 1)
        s3 == ensureFieldState(s2, path)
        field == FieldOf(s3, path)
        initialValue == getByPath(s3.initialValues, path)
        s4 == FieldsSet(s3, path,
                  [field EXCEPT !.value = value,
                                !.isDirty = ~deepEqual(value, initialValue)])
        s5 == IF ValidatesOnChange(s4) THEN validateAll(s4) ELSE s4
        s6 == updateIsDirty(s5)
        isValid == Cardinality(DOMAIN s6.status.errors) = 0
        s7 == IF s6.status.isValid # isValid
              THEN [s6 EXCEPT !.status.isValid = isValid] ELSE s6
    IN  saveToStorage(notifyField(notifyForm(s7), path))

\* The body of setValue after the deepEqual short-circuit.
writeValue(s, path, value) ==
    LET base == SetMax(StoreRefs(s) \cup RefsOf(value))
        s1 == [s EXCEPT !.values = setByPathImmutable(s.values, path, value, base)]
        s2 == syncTrackedFields(s1, path, 1)
        s3 == ensureFieldState(s2, path)
        field == FieldOf(s3, path)
        initialValue == getByPath(s3.initialValues, path)
        s4 == FieldsSet(s3, path,
                  [field EXCEPT !.value = value,
                                !.isDirty = ~deepEqual(value, initialValue)])
        s5 == IF ValidatesOnChange(s4) THEN validateAll(s4) ELSE s4
        s6 == updateIsDirty(s5)
        isValid == Cardinality(DOMAIN s6.status.errors) = 0
        s7 == IF s6.status.isValid # isValid
              THEN [s6 EXCEPT !.status.isValid = isValid] ELSE s6
    IN  IF Thrown(s5) THEN s5 ELSE saveToStorage(notifyForm(notifyField(s7, path)))

\* setValue without the short-circuit on a deep-equal value.
setValue_AlwaysWrites(s, path, value) == writeValue(s, path, value)

setValue(s, path, value) ==
    LET oldValue == getByPath(s.values, path)
    IN  IF deepEqual(oldValue, value) THEN s ELSE writeValue(s, path, value)

setBlur(s, path) ==
    LET s1 == ensureFieldState(s, path)
        field == FieldOf(s1, path)
    IN  IF field.isTouched THEN s1
        ELSE LET s2 == FieldsSet(s1, path, [field EXCEPT !.isTouched = TRUE])
                 s3 == IF ValidatesOnBlur(s2) THEN validateField(s2, path) ELSE s2
             IN  IF Thrown(s3) THEN s3 ELSE notifyForm(notifyField(s3, path))

RECURSIVE notifyAllFields(_, _)
notifyAllFields(s, i) ==
    IF i > Len(PathOrder) THEN s
    ELSE IF ~HasField(s, PathOrder[i]) THEN notifyAllFields(s, i + 1)
    ELSE notifyAllFields(notifyField(s, PathOrder[i]), i + 1)

setFullValues(s, newValues) ==
    LET s1 == [s EXCEPT !.values = newValues]
        s2 == validateAll(updateIsDirty(s1))
    IN  IF Thrown(s2) THEN s2 ELSE notifyAllFields(saveToStorage(notifyForm(s2)), 1)

\* { ...this.initialValues, ...values } as a new object with identity r.
Merge(under, over, r) ==
    Obj(r, [k \in (DOMAIN under.props) \cup (DOMAIN over.props) |->
               IF k \in DOMAIN over.props THEN over.props[k] ELSE under.props[k]])

\* reset that installs the baseline and leaves the current values alone.
reset_KeepsValues(s, hasValues, overrides) ==
    LET base == SetMax(StoreRefs(s) \cup RefsOf(overrides)) + 1
        merged == IF hasValues THEN Merge(s.initialValues, overrides, base)
                  ELSE s.initialValues
        s1 == [s EXCEPT !.initialValues = deepClone(merged, base + 1)]
        s3 == [s1 EXCEPT !.fields = << >>, !.status = ZeroStatus]
    IN  notifyForm(clearStorage(s3))

\* reset that writes the merged values and leaves the baseline alone.
reset_KeepsBaseline(s, hasValues, overrides) ==
    LET base == SetMax(StoreRefs(s) \cup RefsOf(overrides)) + 1
        merged == IF hasValues THEN Merge(s.initialValues, overrides, base)
                  ELSE s.initialValues
        s2 == [s EXCEPT !.values = deepClone(merged, base + 1)]
        s3 == [s2 EXCEPT !.fields = << >>, !.status = ZeroStatus]
    IN  notifyForm(clearStorage(s3))

\* reset that leaves the field-state cache as it is.
reset_KeepsFields(s, hasValues, overrides) ==
    LET base == SetMax(StoreRefs(s) \cup RefsOf(overrides)) + 1
        merged == IF hasValues THEN Merge(s.initialValues, overrides, base)
                  ELSE s.initialValues
        newInitial == deepClone(merged, base + 1)
        s1 == [s EXCEPT !.initialValues = newInitial]
        s2 == [s1 EXCEPT !.values = deepClone(newInitial, SetMax(RefsOf(newInitial)) + 1)]
        s3 == [s2 EXCEPT !.status = ZeroStatus]
    IN  notifyForm(clearStorage(s3))

\* reset that invokes the whole-form listeners twice.
reset_NotifiesTwice(s, hasValues, overrides) ==
    LET base == SetMax(StoreRefs(s) \cup RefsOf(overrides)) + 1
        merged == IF hasValues THEN Merge(s.initialValues, overrides, base)
                  ELSE s.initialValues
        newInitial == deepClone(merged, base + 1)
        s1 == [s EXCEPT !.initialValues = newInitial]
        s2 == [s1 EXCEPT !.values = deepClone(newInitial, SetMax(RefsOf(newInitial)) + 1)]
        s3 == [s2 EXCEPT !.fields = << >>, !.status = ZeroStatus]
    IN  notifyForm(notifyForm(clearStorage(s3)))

\* reset(values): `hasValues` tells whether the argument was given.
reset(s, hasValues, overrides) ==
    LET base == SetMax(StoreRefs(s) \cup RefsOf(overrides)) + 1
        merged == IF hasValues THEN Merge(s.initialValues, overrides, base)
                  ELSE s.initialValues
        newInitial == deepClone(merged, base + 1)
        s1 == [s EXCEPT !.initialValues = newInitial]
        s2 == [s1 EXCEPT !.values = deepClone(newInitial, SetMax(RefsOf(newInitial)) + 1)]
        s3 == [s2 EXCEPT !.fields = << >>, !.status = ZeroStatus]
        s4 == clearStorage(s3)
    IN  IF Thrown(s4) THEN s4 ELSE notifyForm(s4)

RECURSIVE touchAllFields(_, _)
touchAllFields(s, i) ==
    IF i > Len(PathOrder) THEN s
    ELSE IF ~HasField(s, PathOrder[i]) THEN touchAllFields(s, i + 1)
    ELSE LET f == s.fields[PathOrder[i]]
         IN  IF ~f.isTouched
             THEN touchAllFields(
                      notifyField(FieldsSet(s, PathOrder[i], [f EXCEPT !.isTouched = TRUE]),
                                  PathOrder[i]),
                      i + 1)
             ELSE touchAllFields(s, i + 1)

\* handleSubmitBegin that validates before it touches the fields.
handleSubmitBegin_ValidatesFirst(s) ==
    LET s1 == [s EXCEPT !.status.isSubmitting = TRUE,
                        !.status.submitCount = @ + 1]
    IN  touchAllFields(validateAll(notifyForm(s1)), 1)

\* handleSubmitBegin that leaves submitCount as it is.
handleSubmitBegin_KeepsCount(s) ==
    LET s1 == [s EXCEPT !.status.isSubmitting = TRUE]
    IN  validateAll(touchAllFields(notifyForm(s1), 1))

\* handleSubmit up to the call of onValid or onInvalid.
handleSubmitBegin(s) ==
    LET s1 == [s EXCEPT !.status.isSubmitting = TRUE,
                        !.status.submitCount = @ + 1]
    IN  validateAll(touchAllFields(notifyForm(s1), 1))

\* The finally block of handleSubmit.
handleSubmitEnd(s) == notifyForm([s EXCEPT !.status.isSubmitting = FALSE])

\* subscribeToField that sends the state to every listener of the path.
subscribeToField_NotifiesAll(s, path, listener) ==
    LET set == IF path \in DOMAIN s.fieldListeners THEN s.fieldListeners[path] ELSE {}
        s1 == [s EXCEPT !.fieldListeners =
                  [p \in (DOMAIN @) \cup {path} |->
                      IF p = path THEN set \cup {listener} ELSE @[p]]]
    IN  notifyField(s1, path)

subscribeToField(s, path, listener) ==
    LET set == IF path \in DOMAIN s.fieldListeners THEN s.fieldListeners[path] ELSE {}
        s1 == [s EXCEPT !.fieldListeners =
                  [p \in (DOMAIN @) \cup {path} |->
                      IF p = path THEN set \cup {listener} ELSE @[p]]]
        s2 == ensureFieldState(s1, path)
    IN  Emit(s2, [k |-> "field", path |-> path, to |-> {listener}, st |-> FieldOf(s2, path),
                  rid |-> IdOf(s2, path), seen |-> View(s2)])

\* The handle subscribeToField returned, called while its listener is registered.
unsubscribeField(s, path, listener) ==
    LET set == s.fieldListeners[path] \ {listener}
    IN  [s EXCEPT !.fieldListeners =
            IF set = {} THEN [p \in (DOMAIN @) \ {path} |-> @[p]]
            ELSE [@ EXCEPT ![path] = set]]

\* The handles of subscribe carry the path FormHandle.
FormHandle == << >>

\* No closure issued, no Set in the map.
NoHandles ==
    [issued |-> {}, current |-> [p \in {} |-> 0], members |-> [i \in {} |-> {}]]

\* The map path -> listeners as the Sets of h hold it.
ListenersOf(h) == [p \in DOMAIN h.current |-> h.members[h.current[p]]]

\* The closure subscribe or subscribeToField returns: it captures the
\* listener and, for a path, the Set found or created in the map.
issueHandle(h, path, listener) ==
    IF path = FormHandle
    THEN [h EXCEPT !.issued = @ \cup {[n |-> Cardinality(@) + 1, path |-> path,
                                       cb |-> listener, set |-> 0, called |-> FALSE]}]
    ELSE LET isNew == path \notin DOMAIN h.current
             id == IF isNew THEN SetMax(DOMAIN h.members) + 1 ELSE h.current[path]
         IN  [issued |-> h.issued \cup {[n |-> Cardinality(h.issued) + 1, path |-> path,
                                         cb |-> listener, set |-> id, called |-> FALSE]},
              current |-> [p \in (DOMAIN h.current) \cup {path} |->
                              IF p = path THEN id ELSE h.current[p]],
              members |-> [i \in (DOMAIN h.members) \cup {id} |->
                              IF i = id
                              THEN (IF isNew THEN {} ELSE h.members[i]) \cup {listener}
                              ELSE h.members[i]]]

\* callHandle that leaves the emptied Set in the map.
callHandle_KeepsEmptySet(s, h, c) ==
    LET done == (h.issued \ {c}) \cup {[c EXCEPT !.called = TRUE]}
    IN  IF c.path = FormHandle
        THEN [s |-> [s EXCEPT !.listeners = @ \ {c.cb}],
              handles |-> [h EXCEPT !.issued = done]]
        ELSE LET h1 == [h EXCEPT !.issued = done, !.members[c.set] = @ \ {c.cb}]
             IN  [s |-> [s EXCEPT !.fieldListeners = ListenersOf(h1)], handles |-> h1]

\* A call of the closure c: the listener leaves the captured Set and, when
\* that Set is empty, the entry of the path leaves the map.
callHandle(s, h, c) ==
    LET done == (h.issued \ {c}) \cup {[c EXCEPT !.called = TRUE]}
    IN  IF c.path = FormHandle
        THEN [s |-> [s EXCEPT !.listeners = @ \ {c.cb}],
              handles |-> [h EXCEPT !.issued = done]]
        ELSE LET set == h.members[c.set] \ {c.cb}
                 h1 == [issued |-> done,
                        current |-> IF set = {}
                                    THEN [p \in (DOMAIN h.current) \ {c.path} |-> h.current[p]]
                                    ELSE h.current,
                        members |-> [h.members EXCEPT ![c.set] = set]]
             IN  [s |-> [s EXCEPT !.fieldListeners = ListenersOf(h1)], handles |-> h1]

\* processStored that installs the stored tree without the initial values.
processStored_NoMerge(s, item) ==
    IF item # NoItem THEN setFullValues(s, parse(item, NextRef(s))) ELSE s

processStored(s, item) ==
    IF item # NoItem
    THEN LET base == NextRef(s)
             parsed == parse(item, base)
         IN  setFullValues(s, Merge(s.initialValues, parsed, SetMax(RefsOf(parsed) \cup {base}) + 1))
    ELSE s

\* The promise of getItem rejected.
Rejected == [t |-> "rejected"]

\* loadSettled that installs the merged tree and invokes nobody.
loadSettled_Silent(s, item) ==
    IF item = Rejected \/ ~Parses(item) THEN Emit(s, [k |-> "console.warn"])
    ELSE IF item = NoItem THEN s
    ELSE [s EXCEPT !.values = Merge(s.initialValues, parse(item, NextRef(s)),
                                    SetMax(RefsOf(parse(item, NextRef(s))) \cup {NextRef(s)}) + 1)]

\* What getItem delivered reaches processStored inside the try block or the
\* promise chain: a rejection or a JSON.parse error is logged.
loadSettled(s, item) ==
    IF item = Rejected \/ ~Parses(item) THEN Emit(s, [k |-> "console.warn"])
    ELSE Caught(processStored(s, item), "console.warn")

\* The backend's getItem throws (synchronous backend) or rejects
\* (asynchronous backend) when config.fails holds "getItem"; an asynchronous
\* backend leaves the promise pending.
loadFromStorage(s, item) ==
    IF s.config.storage = "none" THEN s
    ELSE LET call == Emit(s, [k |-> "get", key |-> getStorageKey(s)])
         IN  IF s.config.storage = "async" THEN call
             ELSE IF "getItem" \in s.config.fails THEN Emit(call, [k |-> "console.warn"])
             ELSE loadSettled(call, item)

\* The constructor; `item` is the storage entry found under the engine's key.
construct(cfg, item) ==
    LET s0 == [config |-> cfg,
               initialValues |-> deepClone(cfg.initialValues, 1),
               values |-> deepClone(cfg.initialValues, 1 + SetMax(RefsOf(deepClone(cfg.initialValues, 1)))),
               fields |-> << >>, status |-> ZeroStatus,
               listeners |-> {}, fieldListeners |-> << >>,
               stored |-> item, ids |-> << >>, log |-> << >>]
        s1 == loadFromStorage(s0, item)
    IN  IF cfg.mode = "all" THEN validateAll(s1) ELSE s1

(***************************************************************************)
(* Inputs.  Literals are written with identity 0 and get fresh identities  *)
(* when a caller passes them in.                                           *)
(***************************************************************************)
Rec1(k, v) == Obj(0, [x \in {k} |-> v])

Rec2(va, vb) == Obj(0, [x \in {"a", "b"} |-> IF x = "a" THEN va ELSE vb])

Prims == {Prim(n) : n \in 1 .. MaxPrim}

\* The (path, value) pairs setValue is called with.
Writes ==
    {<<p, v>> : p \in {<<"a", "b">>, <<"b">>}, v \in Prims}
        \cup {<<(<<"a">>), Rec1("b", v)>> : v \in Prims}

FullTrees == {Rec2(Rec1("b", v), w) : v \in Prims, w \in Prims}

Overrides == {Rec1("b", Prim(2))}

ConfigInitialValues == Rec2(Rec1("b", Prim(1)), Prim(1))

ListenerIds == {"cb"}

Idle == [t |-> "idle"]

Config(mode, hasValidate, storage) ==
    [mode |-> mode, validate |-> hasValidate, explicit |-> FALSE, storage |-> storage,
     fails |-> {}, storageKey |-> Undefined, throws |-> FALSE,
     initialValues |-> ConfigInitialValues]

\* A configuration whose validation function throws.
ConfigThrows(mode, storage) == [Config(mode, TRUE, storage) EXCEPT !.throws = TRUE]

\* A configuration with a storage backend whose methods in `fails` throw
\* (getItem of an asynchronous backend: rejects) and with a storageKey.
ConfigStorage(storage, fails, storageKey) ==
    [Config("onSubmit", FALSE, storage) EXCEPT !.fails = fails, !.storageKey = storageKey]

\* A configuration whose validation function lists passing paths too.
ConfigExplicit(mode, storage) == [Config(mode, TRUE, storage) EXCEPT !.explicit = TRUE]

\* The entry a configured storage backend holds when the engine is constructed.
StartItem == Rec1("b", Prim(2))

\* The configurations of Spec: every validation mode, with and without a
\* validation function, without storage and with a synchronous and an
\* asynchronous backend.
Configs ==
    {Config("onSubmit", FALSE, "none"), Config("onChange", TRUE, "none"),
     Config("onBlur", TRUE, "sync"), Config("all", TRUE, "async")}

\* The configurations of SpecNotify.
NotifyConfigs == {Config("onSubmit", FALSE, "none"), Config("onChange", TRUE, "sync")}

\* The paths Spec tracks, blurs and subscribes to.
BlurPaths == {<<"a", "b">>}

NestedPaths == {<<"a">>, <<"a", "b">>}

(***************************************************************************)
(* The state machine.  Every action binds the store it starts from and the *)
(* store the operation returns once, then installs the latter.             *)
(***************************************************************************)
Store ==
    [config |-> config, initialValues |-> initialValues, values |-> values,
     fields |-> fields, status |-> status, listeners |-> listeners,
     fieldListeners |-> fieldListeners, stored |-> stored, ids |-> << >>, log |-> << >>]

RECURSIVE FieldRefSeq(_, _)
FieldRefSeq(s, i) ==
    IF i > Len(PathOrder) THEN << >>
    ELSE (IF HasField(s, PathOrder[i]) THEN RefSeq(s.fields[PathOrder[i]].value) ELSE << >>)
             \o FieldRefSeq(s, i + 1)

Normalize(s) ==
    LET seq == RefSeq(s.initialValues) \o RefSeq(s.values) \o FieldRefSeq(s, 1)
    IN  [s EXCEPT
            !.initialValues = Rename(@, seq),
            !.values = Rename(@, seq),
            !.fields = [p \in DOMAIN s.fields |->
                           [s.fields[p] EXCEPT !.value = Rename(@, seq)]]]

Commit(s) ==
    \E n \in {Normalize(s)} :
        /\ config' = n.config
        /\ initialValues' = n.initialValues
        /\ values' = n.values
        /\ fields' = n.fields
        /\ status' = n.status
        /\ listeners' = n.listeners
        /\ fieldListeners' = n.fieldListeners
        /\ stored' = n.stored

\* The state after construction over a backend that holds `item`.
ConstructedWith(cfg, item) ==
        \E n \in {Normalize(construct(cfg, item))} :
            /\ config = n.config
            /\ initialValues = n.initialValues
            /\ values = n.values
            /\ fields = n.fields
            /\ status = n.status
            /\ listeners = n.listeners
            /\ fieldListeners = n.fieldListeners
            /\ stored = n.stored
            /\ pendingLoad = IF cfg.storage # "async" THEN Idle
                             ELSE IF "getItem" \in cfg.fails THEN Rejected ELSE item
            /\ submits = 0
            /\ handles = NoHandles

Constructed(cfg) == ConstructedWith(cfg, IF cfg.storage = "none" THEN NoItem ELSE StartItem)

GetFieldState(path) ==
    /\ \E s \in {Store} : Commit(ensureFieldState(s, path))
    /\ UNCHANGED <<pendingLoad, submits, handles>>

SetValue(path, value) ==
    /\ \E s \in {Store} : Commit(setValue(s, path, deepClone(value, NextRef(s))))
    /\ UNCHANGED <<pendingLoad, submits, handles>>

SetBlur(path) ==
    /\ \E s \in {Store} : Commit(setBlur(s, path))
    /\ UNCHANGED <<pendingLoad, submits, handles>>

SetFullValues(newValues) ==
    /\ \E s \in {Store} : Commit(setFullValues(s, deepClone(newValues, NextRef(s))))
    /\ UNCHANGED <<pendingLoad, submits, handles>>

Reset ==
    /\ \E s \in {Store} : Commit(reset(s, FALSE, Undefined))
    /\ UNCHANGED <<pendingLoad, submits, handles>>

ResetWith(overrides) ==
    /\ \E s \in {Store} : Commit(reset(s, TRUE, deepClone(overrides, NextRef(s))))
    /\ UNCHANGED <<pendingLoad, submits, handles>>

\* handleSubmit until it returns or suspends.  With a valid form, onValid
\* is called: it either throws (the catch and finally blocks run at once) or
\* returns, and the call suspends at the await.  With an invalid form
\* onInvalid is called when the caller gave one, it returns or throws, and
\* the finally block runs at once.
\* handleSubmit without try/catch/finally: a throwing callback ends the call.
handleSubmit_Propagates(s, hasOnInvalid, callbackThrows) ==
    LET s1 == handleSubmitBegin(s)
    IN  IF s1.status.isValid
        THEN Emit(s1, [k |-> "onValid", values |-> s1.values])
        ELSE IF hasOnInvalid
        THEN LET s2 == Emit(s1, [k |-> "onInvalid", errors |-> s1.status.errors])
             IN  IF callbackThrows THEN s2 ELSE handleSubmitEnd(s2)
        ELSE handleSubmitEnd(s1)

handleSubmit(s, hasOnInvalid, callbackThrows) ==
    LET s1 == handleSubmitBegin(s)
        caught(x) == IF callbackThrows THEN Emit(x, [k |-> "console.error"]) ELSE x
    IN  IF Thrown(s1) THEN handleSubmitEnd(Caught(s1, "console.error"))
        ELSE IF s1.status.isValid
        THEN LET s2 == Emit(s1, [k |-> "onValid", values |-> s1.values])
             IN  IF callbackThrows THEN handleSubmitEnd(caught(s2)) ELSE s2
        ELSE IF hasOnInvalid
        THEN handleSubmitEnd(caught(Emit(s1, [k |-> "onInvalid", errors |-> s1.status.errors])))
        ELSE handleSubmitEnd(s1)

Suspends(s, callbackThrows) ==
    LET s1 == handleSubmitBegin(s)
    IN  ~Thrown(s1) /\ s1.status.isValid /\ ~callbackThrows

HandleSubmit(hasOnInvalid, callbackThrows) ==
    /\ status.submitCount < MaxSubmitCount
    /\ \E s \in {Store} : \E suspends \in {Suspends(s, callbackThrows)} :
          /\ suspends => submits < MaxSubmits
          /\ Commit(handleSubmit(s, hasOnInvalid, callbackThrows))
          /\ submits' = IF suspends THEN submits + 1 ELSE submits
    /\ UNCHANGED <<pendingLoad, handles>>

\* A suspended handleSubmit resumes after onValid settled.
HandleSubmitResume ==
    /\ submits > 0
    /\ \E s \in {Store} : Commit(handleSubmitEnd(s))
    /\ submits' = submits - 1
    /\ UNCHANGED <<pendingLoad, handles>>

Subscribe(listener) ==
    /\ listener \notin listeners
    /\ \E s \in {Store} : Commit([s EXCEPT !.listeners = @ \cup {listener}])
    /\ UNCHANGED <<pendingLoad, submits, handles>>

Unsubscribe(listener) ==
    /\ listener \in listeners
    /\ \E s \in {Store} : Commit([s EXCEPT !.listeners = @ \ {listener}])
    /\ UNCHANGED <<pendingLoad, submits, handles>>

SubscribeToField(path, listener) ==
    /\ ~(path \in DOMAIN fieldListeners /\ listener \in fieldListeners[path])
    /\ \E s \in {Store} : Commit(subscribeToField(s, path, listener))
    /\ UNCHANGED <<pendingLoad, submits, handles>>

UnsubscribeField(path, listener) ==
    /\ path \in DOMAIN fieldListeners
    /\ listener \in fieldListeners[path]
    /\ \E s \in {Store} : Commit(unsubscribeField(s, path, listener))
    /\ UNCHANGED <<pendingLoad, submits, handles>>

\* subscribe (path FormHandle) or subscribeToField, keeping the closure.
SubscribeHandle(path, listener) ==
    /\ Cardinality(handles.issued) < MaxHandles
    /\ \E s \in {Store} :
           Commit(IF path = FormHandle THEN [s EXCEPT !.listeners = @ \cup {listener}]
                  ELSE subscribeToField(s, path, listener))
    /\ handles' = issueHandle(handles, path, listener)
    /\ UNCHANGED <<pendingLoad, submits>>

\* A call, the first or a later one, of a closure the caller holds.
CallHandle(c) ==
    /\ c \in handles.issued
    /\ \E r \in {callHandle(Store, handles, c)} :
           Commit(r.s) /\ handles' = r.handles
    /\ UNCHANGED <<pendingLoad, submits>>

\* The promise of an asynchronous getItem settles.
LoadSettles ==
    /\ pendingLoad # Idle
    /\ \E s \in {Store} : Commit(loadSettled(s, pendingLoad))
    /\ pendingLoad' = Idle
    /\ UNCHANGED <<submits, handles>>

Init == \E cfg \in Configs : Constructed(cfg)

\* Every public operation, on a store of any configuration.
Next ==
    \/ \E path \in NestedPaths : GetFieldState(path)
    \/ \E w \in Writes : SetValue(w[1], w[2])
    \/ \E path \in BlurPaths : SetBlur(path)
    \/ \E newValues \in FullTrees : SetFullValues(newValues)
    \/ Reset
    \/ \E overrides \in Overrides : ResetWith(overrides)
    \/ \E callbackThrows \in BOOLEAN : HandleSubmit(TRUE, callbackThrows)
    \/ HandleSubmitResume
    \/ \E path \in BlurPaths : \E listener \in ListenerIds : SubscribeToField(path, listener)
    \/ \E path \in BlurPaths : \E listener \in ListenerIds : UnsubscribeField(path, listener)
    \/ LoadSettles

Spec == Init /\ [][Next]_vars

InitNotify == \E cfg \in NotifyConfigs : Constructed(cfg)

\* The operations that change values or the cache, with whole-form
\* listeners and per-path listeners on a parent and on its child.
NextNotify ==
    \/ \E path \in NestedPaths : GetFieldState(path)
    \/ \E w \in Writes : SetValue(w[1], w[2])
    \/ \E newValues \in FullTrees : SetFullValues(newValues)
    \/ Reset
    \/ \E overrides \in Overrides : ResetWith(overrides)
    \/ \E listener \in ListenerIds : Subscribe(listener)
    \/ \E listener \in ListenerIds : Unsubscribe(listener)
    \/ \E path \in NestedPaths : \E listener \in ListenerIds : SubscribeToField(path, listener)
    \/ \E path \in NestedPaths : \E listener \in ListenerIds : UnsubscribeField(path, listener)

SpecNotify == InitNotify /\ [][NextNotify]_vars

\* The configurations of SpecValidate: every validation mode with a
\* validation function, without storage.
ValidateConfigs ==
    {ConfigExplicit("onChange", "none"), Config("onBlur", TRUE, "none"),
     Config("onSubmit", TRUE, "none"), Config("all", TRUE, "none")}

InitValidate == \E cfg \in ValidateConfigs : Constructed(cfg)

\* The operations that run validation or submit, with whole-form listeners
\* and per-path listeners on the validated path.
NextValidate ==
    \/ \E path \in BlurPaths : GetFieldState(path)
    \/ \E w \in Writes : SetValue(w[1], w[2])
    \/ \E path \in BlurPaths : SetBlur(path)
    \/ Reset
    \/ \E hasOnInvalid \in BOOLEAN : \E callbackThrows \in BOOLEAN :
           HandleSubmit(hasOnInvalid, callbackThrows)
    \/ HandleSubmitResume
    \/ \E listener \in ListenerIds : Subscribe(listener)
    \/ \E listener \in ListenerIds : Unsubscribe(listener)
    \/ \E path \in BlurPaths : \E listener \in ListenerIds : SubscribeToField(path, listener)
    \/ \E path \in BlurPaths : \E listener \in ListenerIds : UnsubscribeField(path, listener)

SpecValidate == InitValidate /\ [][NextValidate]_vars

(***************************************************************************)
(* Helpers of the properties.                                              *)
(***************************************************************************)
\* The per-path listener invocations for `path` in a trace.
FieldEvents(s, path) ==
    {i \in 1 .. Len(s.log) : s.log[i].k = "field" /\ s.log[i].path = path}

FormEvents(s) == {i \in 1 .. Len(s.log) : s.log[i].k = "form"}

SaveEvents(s) == {i \in 1 .. Len(s.log) : s.log[i].k \in {"save", "remove"}}

IsPrefix(p, q) == Len(p) < Len(q) /\ SubSeq(q, 1, Len(p)) = p

\* A literal as the caller passes it to the store s: fresh identities.
Fresh(s, literal) == deepClone(literal, NextRef(s))

SameFieldState(f, g) ==
    /\ deepEqual(f.value, g.value)
    /\ f.error = g.error
    /\ f.isTouched = g.isTouched
    /\ f.isDirty = g.isDirty
    /\ f.isValid = g.isValid

(***************************************************************************)
(* C1: for every path in the field-state cache, the cached isDirty flag is *)
(* the negation of deepEqual(value at the path in the current tree, value   *)
(* at the path in the initial tree), after any sequence of operations.      *)
(* The code breaks it: setFullValues replaces the tree and leaves the       *)
(* cache as it was.                                                         *)
(***************************************************************************)
C1_FieldDirtyFollowsTrees ==
    \A p \in DOMAIN fields :
        fields[p].isDirty = ~deepEqual(getByPath(values, p), getByPath(initialValues, p))

(***************************************************************************)
(* C2: for every path in the field-state cache, the cached value equals    *)
(* the value resolved at the path in the current tree.  The code breaks it *)
(* in setFullValues, which never refreshes the cached values.               *)
(***************************************************************************)
C2_CachedValueFollowsTree ==
    \A p \in DOMAIN fields : deepEqual(fields[p].value, getByPath(values, p))

ValueChanging(s, path, value) == ~deepEqual(getByPath(s.values, path), value)

(***************************************************************************)
(* C3: a value-changing setValue(P, x) on a nested path P makes            *)
(* getValue(A) of every proper ancestor A of P that has a subscriber       *)
(* reflect x at P's relative position and invokes A's listeners, whatever  *)
(* happened since A subscribed.  The code breaks it after reset: reset     *)
(* empties the cache and keeps the listeners, and setValue only visits     *)
(* cached paths.                                                           *)
(***************************************************************************)
C3_AncestorNotified ==
    \A w \in Writes : \A A \in DOMAIN fieldListeners :
        LET P == w[1]
            x == Fresh(Store, w[2])
            r == setValue(Store, P, x)
        IN  (IsPrefix(A, P) /\ ValueChanging(Store, P, x))
                => /\ deepEqual(getByPath(getValue(r, A), SubSeq(P, Len(A) + 1, Len(P))), x)
                   /\ FieldEvents(r, A) # {}

(***************************************************************************)
(* C4: a value-changing setValue(A, obj) leaves every tracked descendant D *)
(* of A with the value resolved at D in the new tree and with isDirty      *)
(* computed against the initial tree, and notifies D's subscribers when    *)
(* the write changed the value resolved at D.  The code breaks the last    *)
(* part when the cache was left stale by setFullValues (C2): the new value *)
(* is compared with the stale cached one.                                  *)
(***************************************************************************)
C4_DescendantSynced ==
    \A w \in Writes : \A D \in DOMAIN fields :
        LET A == w[1]
            obj == Fresh(Store, w[2])
            r == setValue(Store, A, obj)
        IN  (IsPrefix(A, D) /\ ValueChanging(Store, A, obj))
                => /\ deepEqual(FieldOf(r, D).value, getByPath(r.values, D))
                   /\ FieldOf(r, D).isDirty
                          = ~deepEqual(getByPath(r.values, D), getByPath(r.initialValues, D))
                   /\ (D \in DOMAIN fieldListeners
                          /\ ~deepEqual(getByPath(values, D), getByPath(r.values, D)))
                        => FieldEvents(r, D) # {}

(***************************************************************************)
(* C5: setValue(P, V) with V deep-equal to the value at P changes nothing: *)
(* values, cache, status and the storage entry stay as they are and no     *)
(* listener is invoked; hence a second setValue(P, V) right after a first  *)
(* one changes nothing and notifies nobody.                                *)
(***************************************************************************)
C5_SetValueNoOp ==
    \A w \in Writes :
        LET P == w[1]
            r1 == setValue(Store, P, Fresh(Store, w[2]))
            again == [r1 EXCEPT !.log = << >>]
            r2 == setValue(again, P, Fresh(again, w[2]))
        IN  /\ ~ValueChanging(Store, P, w[2]) => r1 = Store
            /\ r2 = again

C5_Witness ==
    /\ config.storage = "sync"
    /\ listeners # {}
    /\ <<"a", "b">> \in DOMAIN fieldListeners
    /\ <<"a", "b">> \in DOMAIN fields
    /\ getByPath(values, <<"a", "b">>) = Prim(2)
    /\ fields[<<"a", "b">>].isDirty
    /\ stored = stringify(values)

(***************************************************************************)
(* C6: a setValue(P, v) that changes the value at P invokes the listeners  *)
(* of P exactly once, with a field state whose value is v and whose        *)
(* isDirty is computed against the initial value at P.  The code breaks it *)
(* in modes onChange and all: validateAll notifies P when its error        *)
(* changes and setValue then notifies P again.                             *)
(***************************************************************************)
C6_WrittenPathNotifiedOnce ==
    \A w \in Writes :
        LET P == w[1]
            v == Fresh(Store, w[2])
            r == setValue(Store, P, v)
        IN  (P \in DOMAIN fieldListeners /\ ValueChanging(Store, P, v))
                => /\ Cardinality(FieldEvents(r, P)) = 1
                   /\ \A i \in FieldEvents(r, P) :
                         /\ r.log[i].to = fieldListeners[P]
                         /\ deepEqual(r.log[i].st.value, v)
                         /\ r.log[i].st.isDirty = ~deepEqual(v, getByPath(initialValues, P))

(***************************************************************************)
(* C7: during setValue(P, v) a listener of a path Q other than P is        *)
(* invoked only if Q's field state after the call differs from its state   *)
(* before.  The code breaks it: the loop compares the cached value with    *)
(* the resolved one by identity, so a path whose object was replaced by a  *)
(* deep-equal one is notified with an unchanged state.                     *)
(***************************************************************************)
C7_OnlyChangedNotified ==
    \A w \in Writes : \A Q \in DOMAIN fields :
        LET P == w[1]
            r == setValue(Store, P, Fresh(Store, w[2]))
        IN  (Q # P /\ FieldEvents(r, Q) # {})
                => ~SameFieldState(FieldOf(Store, Q), FieldOf(r, Q))

(***************************************************************************)
(* C8: after every public operation the form status' isDirty equals        *)
(* NOT deepEqual(current value tree, initial value tree).                  *)
(***************************************************************************)
C8_FormDirtyFollowsTrees ==
    status.isDirty = ~deepEqual(values, initialValues)

\* The value at b was written and is back at its initial value.
C8_Witness ==
    /\ <<"b">> \in DOMAIN fields
    /\ ~fields[<<"b">>].isDirty
    /\ ~status.isDirty
    /\ deepEqual(values, initialValues)

\* The baseline is the construction-time tree, possibly with the overrides
\* of earlier reset(overrides) calls merged over it.
IsBaseline(tree) ==
    \/ deepEqual(tree, ConfigInitialValues)
    \/ \E ov \in Overrides : deepEqual(tree, Merge(ConfigInitialValues, ov, 0))

(***************************************************************************)
(* C9 as stated: reset() with no argument makes the values deep-equal to   *)
(* the initialValues the store was constructed with and isDirty false.     *)
(***************************************************************************)
C9_ResetRestoresConstructed ==
    LET r == reset(Store, FALSE, Undefined)
    IN  /\ deepEqual(r.values, ConfigInitialValues)
        /\ ~r.status.isDirty

(***************************************************************************)
(* C9 amended: reset() with no argument makes the values deep-equal to the *)
(* current baseline, which is the construction-time initialValues with the *)
(* overrides of every earlier reset(overrides) merged over them, leaves    *)
(* the baseline as it is and makes isDirty false.                          *)
(***************************************************************************)
C9_ResetRestoresBaseline ==
    LET r == reset(Store, FALSE, Undefined)
    IN  /\ IsBaseline(initialValues)
        /\ deepEqual(r.values, initialValues)
        /\ deepEqual(r.initialValues, initialValues)
        /\ ~r.status.isDirty

\* A dirty store whose baseline was moved by an earlier reset(overrides).
C9_Witness ==
    /\ ~deepEqual(initialValues, ConfigInitialValues)
    /\ ~deepEqual(values, initialValues)
    /\ status.isDirty
    /\ ~deepEqual(reset(Store, FALSE, Undefined).values, values)

(***************************************************************************)
(* C10: reset(overrides) defines a new baseline: right afterwards the      *)
(* values equal the previous baseline with the overrides merged over it    *)
(* and isDirty is false, and the field and form dirty flags of a later     *)
(* setValue are computed against that new baseline.                        *)
(***************************************************************************)
C10_ResetDefinesBaseline ==
    \A ov \in Overrides :
        LET r == reset(Store, TRUE, Fresh(Store, ov))
            merged == Merge(initialValues, ov, 0)
        IN  /\ deepEqual(r.values, merged)
            /\ deepEqual(r.initialValues, merged)
            /\ ~r.status.isDirty
            /\ \A w \in Writes :
                   LET after == setValue(r, w[1], Fresh(r, w[2]))
                   IN  /\ after.status.isDirty = ~deepEqual(after.values, merged)
                       /\ HasField(after, w[1])
                            => FieldOf(after, w[1]).isDirty
                                   = ~deepEqual(w[2], getByPath(merged, w[1]))

\* After reset({b: 2}) the value at b is back at its construction-time
\* value and counts as dirty.
C10_Witness ==
    /\ deepEqual(getByPath(initialValues, <<"b">>), Prim(2))
    /\ deepEqual(getByPath(values, <<"b">>), getByPath(ConfigInitialValues, <<"b">>))
    /\ <<"b">> \in DOMAIN fields
    /\ fields[<<"b">>].isDirty
    /\ status.isDirty

\* The stores reset can return from the current state: reset() and
\* reset(overrides) for each override.
ResetResults ==
    {reset(Store, FALSE, Undefined)}
        \cup {reset(Store, TRUE, Fresh(Store, ov)) : ov \in Overrides}

(***************************************************************************)
(* C11: after reset returns the field-state cache is empty, so that the    *)
(* next getFieldState(P) yields an entry with isTouched false and no       *)
(* error, and the form status is in its zero state.                        *)
(***************************************************************************)
C11_ResetClearsCacheAndStatus ==
    \A r \in ResetResults :
        /\ DOMAIN r.fields = {}
        /\ r.status = ZeroStatus
        /\ \A P \in PathSet :
              LET f == FieldOf(ensureFieldState(r, P), P)
              IN  ~f.isTouched /\ f.error = NoError /\ f.isValid

\* A submitted, dirty, invalid form with a touched field in error.
C11_Witness ==
    /\ status.submitCount > 0
    /\ status.isDirty
    /\ ~status.isValid
    /\ \E P \in DOMAIN fields : fields[P].isTouched /\ fields[P].error # NoError

(***************************************************************************)
(* C12: reset invokes the whole-form listeners exactly once, with the zero *)
(* status, and invokes no per-path listener, even for paths that were      *)
(* tracked and subscribed before.                                          *)
(***************************************************************************)
C12_ResetNotifiesFormOnce ==
    \A r \in ResetResults :
        /\ \A P \in PathSet : FieldEvents(r, P) = {}
        /\ listeners # {} =>
              /\ Cardinality(FormEvents(r)) = 1
              /\ \A i \in FormEvents(r) :
                    r.log[i].to = listeners /\ r.log[i].status = ZeroStatus
        /\ r.fieldListeners = fieldListeners

\* Whole-form listeners and a subscribed, tracked, dirty path.
C12_Witness ==
    /\ listeners # {}
    /\ \E P \in DOMAIN fieldListeners : P \in DOMAIN fields /\ fields[P].isDirty

\* The assignment `o[k] = x` by a caller holding the object of identity r,
\* as seen through a tree v that may reach that object.
RECURSIVE Mutate(_, _, _, _)
Mutate(v, r, k, x) ==
    IF IsObj(v)
    THEN Obj(v.ref,
             [j \in (DOMAIN v.props) \cup (IF v.ref = r THEN {k} ELSE {}) |->
                 IF v.ref = r /\ j = k THEN x ELSE Mutate(v.props[j], r, k, x)])
    ELSE v

\* No assignment to a property of an object of `held` shows in the trees
\* and cached values of the store s.
Isolated(s, held) ==
    \A r \in RefsOf(held) : \A k \in Keys : \A x \in Prims :
        /\ Mutate(s.values, r, k, x) = s.values
        /\ Mutate(s.initialValues, r, k, x) = s.initialValues
        /\ \A P \in DOMAIN s.fields : Mutate(s.fields[P].value, r, k, x) = s.fields[P].value

\* Overrides with a nested object.
DeepOverrides == Overrides \cup {Rec1("a", Rec1("b", Prim(2)))}

(***************************************************************************)
(* C13: assigning to the object passed as initialValues at any time after  *)
(* construction, or to the object passed as overrides after reset          *)
(* returned, changes neither the current values, nor the baseline, nor a   *)
(* cached field state (also one created right after the reset).            *)
(***************************************************************************)
C13_CallerObjectsIsolated ==
    /\ Isolated(Store, config.initialValues)
    /\ \A ov \in DeepOverrides :
          LET o == Fresh(Store, ov)
              r == reset(Store, TRUE, o)
          IN  /\ Isolated(r, o) /\ Isolated(r, config.initialValues)
              /\ Isolated(ensureFieldState(r, <<"a">>), o)

\* A store that went through reset(overrides) and caches an object value.
C13_Witness ==
    /\ ~deepEqual(initialValues, config.initialValues)
    /\ ~deepEqual(values, initialValues)
    /\ <<"a">> \in DOMAIN fields
    /\ IsObj(fields[<<"a">>].value)
    /\ Mutate(config.initialValues, 0, "b", Prim(2)) # config.initialValues

\* A validation result reports no error: every entry it has is undefined.
HasNoError(result) == \A Q \in DOMAIN result : result[Q] = NoError

(***************************************************************************)
(* C14: in modes onChange and all, after a value-changing setValue the     *)
(* status' errors are the validation function's result on the new tree,    *)
(* the status' isValid is true exactly when that result has no error, and  *)
(* the written path's cached error and isValid agree with its entry.  The  *)
(* code breaks the second part: validateAll counts the keys of the result, *)
(* so a result whose entries are all undefined makes the form invalid.     *)
(***************************************************************************)
C14_ChangeValidation ==
    ValidatesOnChange(Store) =>
        \A w \in Writes :
            LET P == w[1]
                v == Fresh(Store, w[2])
                r == setValue(Store, P, v)
                result == validate(r)
            IN  ValueChanging(Store, P, v)
                    => /\ r.status.errors = result
                       /\ r.status.isValid = HasNoError(result)
                       /\ FieldOf(r, P).error = ErrorAt(result, P)
                       /\ FieldOf(r, P).isValid = (ErrorAt(result, P) = NoError)

\* The calls of the validation function in a trace.
ValidateEvents(s) == {i \in 1 .. Len(s.log) : s.log[i].k = "validate"}

(***************************************************************************)
(* C15: in modes onBlur and onSubmit, setValue does not call the           *)
(* validation function and leaves every cached field error and isValid     *)
(* flag and the status' errors and isValid as they were.                   *)
(***************************************************************************)
C15_NoValidationOnChange ==
    config.mode \in {"onBlur", "onSubmit"} =>
        \A w \in Writes :
            LET r == setValue(Store, w[1], Fresh(Store, w[2]))
            IN  /\ ValidateEvents(r) = {}
                /\ r.status.errors = status.errors
                /\ r.status.isValid = status.isValid
                /\ \A P \in DOMAIN fields :
                      /\ FieldOf(r, P).error = fields[P].error
                      /\ FieldOf(r, P).isValid = fields[P].isValid

\* A visible error that a write made obsolete and left in place.
C15_Witness ==
    /\ config.mode \in {"onBlur", "onSubmit"}
    /\ config.validate
    /\ status.errors # NoErrors
    /\ ~status.isValid
    /\ validate(Store) = NoErrors
    /\ \E P \in DOMAIN fields : fields[P].error # NoError /\ fields[P].isDirty

(***************************************************************************)
(* C16: in modes onBlur and all, after setBlur(P) the cached error of P is *)
(* the entry for P in the validation function's result on the current      *)
(* tree, for every blur of P.  The code breaks it: setBlur returns at once *)
(* when P is already touched, so a later blur does not validate.           *)
(***************************************************************************)
C16_BlurValidation ==
    config.mode \in {"onBlur", "all"} =>
        \A P \in BlurPaths :
            LET r == setBlur(Store, P)
            IN  FieldOf(r, P).error = ErrorAt(validate(r), P)

\* The entries a configured backend may hold when the engine is constructed.
StartItems(cfg) == IF cfg.storage = "none" THEN {NoItem} ELSE {NoItem, StartItem}

(***************************************************************************)
(* C17: when the mode is not 'all', the constructor returns a store whose  *)
(* status has no errors and isValid true, whether or not the starting      *)
(* values fail validation and whether or not the backend supplied stored   *)
(* values.  The code breaks it: a synchronous load goes through            *)
(* setFullValues, which runs a full validation pass in every mode.         *)
(***************************************************************************)
C17_StartsWithoutErrors ==
    config.mode # "all" =>
        \A item \in StartItems(config) :
            LET c == construct(config, item)
            IN  c.status.errors = NoErrors /\ c.status.isValid

(***************************************************************************)
(* C18: every handleSubmit call adds exactly one to submitCount, whatever  *)
(* its outcome; the constructor and reset set it to 0 and no other         *)
(* operation, nor the completion of a suspended call, changes it; so       *)
(* submitCount is the number of calls started since construction or the    *)
(* last reset.                                                             *)
(***************************************************************************)
C18_SubmitCounts ==
    /\ \A hasOnInvalid \in BOOLEAN : \A callbackThrows \in BOOLEAN :
          handleSubmit(Store, hasOnInvalid, callbackThrows).status.submitCount
              = status.submitCount + 1
    /\ handleSubmitEnd(Store).status.submitCount = status.submitCount
    /\ \A item \in StartItems(config) : construct(config, item).status.submitCount = 0
    /\ \A r \in ResetResults : r.status.submitCount = 0
    /\ \A w \in Writes :
          setValue(Store, w[1], Fresh(Store, w[2])).status.submitCount = status.submitCount
    /\ \A newValues \in FullTrees :
          setFullValues(Store, Fresh(Store, newValues)).status.submitCount = status.submitCount
    /\ \A P \in PathSet :
          /\ setBlur(Store, P).status.submitCount = status.submitCount
          /\ ensureFieldState(Store, P).status.submitCount = status.submitCount
          /\ \A l \in ListenerIds :
                subscribeToField(Store, P, l).status.submitCount = status.submitCount

\* A submit of an invalid form has completed.
C18_Witness ==
    /\ status.submitCount = 1
    /\ ~status.isSubmitting
    /\ ~status.isValid
    /\ submits = 0

OnValidEvents(s) == {i \in 1 .. Len(s.log) : s.log[i].k = "onValid"}

OnInvalidEvents(s) == {i \in 1 .. Len(s.log) : s.log[i].k = "onInvalid"}

(***************************************************************************)
(* C19: handleSubmit invokes onValid exactly once, with the current value  *)
(* tree, if and only if the validation function's result on the current    *)
(* values has no error; otherwise it does not invoke onValid and invokes   *)
(* onInvalid, if given, exactly once with the error mapping.  The code     *)
(* breaks it for a result whose entries are all undefined (as in C14):     *)
(* validateAll counts keys and reports the form invalid.                   *)
(***************************************************************************)
C19_SubmitCallbacks ==
    \A hasOnInvalid \in BOOLEAN : \A callbackThrows \in BOOLEAN :
        LET r == handleSubmit(Store, hasOnInvalid, callbackThrows)
            result == validate(Store)
        IN  IF HasNoError(result)
            THEN /\ Cardinality(OnValidEvents(r)) = 1
                 /\ \A i \in OnValidEvents(r) : r.log[i].values = values
                 /\ OnInvalidEvents(r) = {}
            ELSE /\ OnValidEvents(r) = {}
                 /\ Cardinality(OnInvalidEvents(r)) = IF hasOnInvalid THEN 1 ELSE 0
                 /\ \A i \in OnInvalidEvents(r) : r.log[i].errors = result

\* The trace of s ends with a whole-form notification that shows
\* isSubmitting false, when there is a whole-form listener.
EndsSettled(s) ==
    /\ ~s.status.isSubmitting
    /\ s.listeners # {} =>
          /\ Len(s.log) > 0
          /\ s.log[Len(s.log)].k = "form"
          /\ s.log[Len(s.log)].to = s.listeners
          /\ ~s.log[Len(s.log)].status.isSubmitting

(***************************************************************************)
(* C20: handleSubmit always runs to its end: with a valid form once        *)
(* onValid settled, with an invalid form, and when onValid or onInvalid    *)
(* throws, the call ends with isSubmitting false and a final whole-form    *)
(* notification; a thrown error is logged and not passed on.               *)
(***************************************************************************)
C20_SubmitSettles ==
    /\ \A hasOnInvalid \in BOOLEAN : \A callbackThrows \in BOOLEAN :
          LET r == handleSubmit(Store, hasOnInvalid, callbackThrows)
              called == OnValidEvents(r) \cup OnInvalidEvents(r)
              logged == {i \in 1 .. Len(r.log) : r.log[i].k = "console.error"}
          IN  IF Suspends(Store, callbackThrows)
              THEN /\ r.status.isSubmitting
                   /\ EndsSettled(handleSubmitEnd([r EXCEPT !.log = << >>]))
              ELSE /\ EndsSettled(r)
                   /\ Cardinality(logged) = IF callbackThrows /\ called # {} THEN 1 ELSE 0
    /\ submits > 0 => EndsSettled(handleSubmitEnd(Store))

\* A call is suspended at onValid while whole-form listeners are subscribed.
C20_Witness ==
    /\ listeners # {}
    /\ submits > 0
    /\ status.isSubmitting
    /\ status.submitCount = 1

\* The configuration, listeners and paths of SpecHandles.
HandleConfig == Config("onSubmit", FALSE, "none")
HandleListeners == {"cb", "cb2"}
HandlePaths == {FormHandle, <<"a">>, <<"a", "b">>}

\* Every closure that can be issued.
Handles ==
    [n : 1 .. MaxHandles, path : HandlePaths, cb : HandleListeners,
     set : 0 .. MaxHandles, called : BOOLEAN]

InitHandles == Constructed(HandleConfig)

\* Writes, resets, subscriptions that keep their closure, and calls of the
\* closures in any order and any number of times.
NextHandles ==
    \/ \E w \in Writes : SetValue(w[1], w[2])
    \/ Reset
    \/ \E path \in HandlePaths : \E listener \in HandleListeners : SubscribeHandle(path, listener)
    \/ \E c \in Handles : CallHandle(c)

SpecHandles == InitHandles /\ [][NextHandles]_vars

\* The key a caller configures.
MyKey == StorageKey("my-form", << >>)

\* The configurations of SpecStorage: a working synchronous backend with a
\* configured key, a working asynchronous backend, a synchronous backend
\* whose methods all throw, an asynchronous backend whose getItem rejects,
\* and an asynchronous backend with a configured key whose setItem and
\* removeItem throw.
StorageConfigs ==
    {ConfigStorage("sync", {}, MyKey),
     ConfigStorage("async", {}, Undefined),
     ConfigStorage("sync", {"getItem", "setItem", "removeItem"}, Undefined),
     ConfigStorage("async", {"getItem"}, Undefined),
     ConfigStorage("async", {"setItem", "removeItem"}, MyKey)}

\* What the backend holds under the key at construction: nothing, a
\* serialized tree, or text that is not JSON.
StorageItems == {NoItem, StartItem, Garbage}

InitStorage == \E cfg \in StorageConfigs : \E item \in StorageItems : ConstructedWith(cfg, item)

\* The operations that read, write or remove the storage entry, with
\* whole-form listeners and per-path listeners on a.b.
NextStorage ==
    \/ \E w \in Writes : SetValue(w[1], w[2])
    \/ \E newValues \in FullTrees : SetFullValues(newValues)
    \/ Reset
    \/ \E listener \in ListenerIds : Subscribe(listener)
    \/ \E listener \in ListenerIds : Unsubscribe(listener)
    \/ \E path \in BlurPaths : \E listener \in ListenerIds : SubscribeToField(path, listener)
    \/ \E path \in BlurPaths : \E listener \in ListenerIds : UnsubscribeField(path, listener)
    \/ LoadSettles

SpecStorage == InitStorage /\ [][NextStorage]_vars

\* The trees, paths and values the path utilities are applied to: objects
\* of up to two levels whose keys may be missing, every path of one or two
\* keys, and as values the primitives, undefined, a new object and the very
\* value the tree holds at the path.
Absent == [t |-> "absent"]

TreeOf(r, f) == Obj(r, [k \in {x \in Keys : f[x] # Absent} |-> f[k]])

InnerTrees(r) == {TreeOf(r, f) : f \in [Keys -> Prims \cup {Absent}]}

PathTrees ==
    {TreeOf(1, f) : f \in {g \in [Keys -> Prims \cup {Absent} \cup InnerTrees(2) \cup InnerTrees(3)] :
                              g["a"] \notin InnerTrees(3) /\ g["b"] \notin InnerTrees(2)}}

PathPaths == {<<k>> : k \in Keys} \cup {<<k, l>> : k \in Keys, l \in Keys}

PathValues(T, P) ==
    Prims \cup {Undefined, getByPath(T, P)}
        \cup (IF Len(P) = 1 THEN {deepClone(Rec1("b", Prim(1)), SetMax(RefsOf(T)) + 1)} ELSE {})

\* setByPathImmutable(T, P, V) with identities for the objects it creates.
SetAt(T, P, V) == setByPathImmutable(T, P, V, SetMax(RefsOf(T) \cup RefsOf(V)))

\* A tree of PathTrees in `values`, the other variables as constructed.
InitPath ==
    \E T \in PathTrees : \E n \in {Normalize(construct(HandleConfig, NoItem))} :
        /\ values = T
        /\ config = n.config
        /\ initialValues = n.initialValues
        /\ fields = n.fields
        /\ status = n.status
        /\ listeners = n.listeners
        /\ fieldListeners = n.fieldListeners
        /\ stored = n.stored
        /\ pendingLoad = Idle
        /\ submits = 0
        /\ handles = NoHandles

\* values = setByPathImmutable(values, P, V)
SetByPath(P, V) ==
    /\ \E r \in {SetAt(values, P, V)} : values' = Rename(r, RefSeq(r))
    /\ UNCHANGED <<config, initialValues, fields, status, listeners, fieldListeners,
                   stored, pendingLoad, submits, handles>>

NextPath == \E P \in PathPaths : \E V \in PathValues(values, P) : SetByPath(P, V)

SpecPath == InitPath /\ [][NextPath]_vars

\* The configurations of SpecThrows: a validation function that throws, in
\* the modes in which the constructor does not call it, without storage and
\* over a synchronous backend.
ThrowConfigs ==
    {ConfigThrows("onChange", "none"), ConfigThrows("onBlur", "none"),
     ConfigThrows("onSubmit", "none"), ConfigThrows("onSubmit", "sync")}

InitThrows == \E cfg \in ThrowConfigs : \E item \in StartItems(cfg) : ConstructedWith(cfg, item)

\* The operations that run validation, and those that prepare their cases.
NextThrows ==
    \/ \E path \in BlurPaths : GetFieldState(path)
    \/ \E w \in Writes : SetValue(w[1], w[2])
    \/ \E path \in BlurPaths : SetBlur(path)
    \/ \E newValues \in FullTrees : SetFullValues(newValues)
    \/ Reset
    \/ \E hasOnInvalid \in BOOLEAN : HandleSubmit(hasOnInvalid, FALSE)
    \/ \E listener \in ListenerIds : Subscribe(listener)
    \/ \E listener \in ListenerIds : Unsubscribe(listener)

SpecThrows == InitThrows /\ [][NextThrows]_vars

\* The whole trace of a handleSubmit call that nothing interleaves with:
\* the part up to the callback and, when the call suspends at onValid, the
\* part after onValid settled.
SubmitRun(s, hasOnInvalid, callbackThrows) ==
    LET r == handleSubmit(s, hasOnInvalid, callbackThrows)
    IN  IF Suspends(s, callbackThrows)
        THEN LET e == handleSubmitEnd([r EXCEPT !.log = << >>])
             IN  [e EXCEPT !.log = r.log \o e.log]
        ELSE r

(***************************************************************************)
(* C21: the events of a handleSubmit call come in this order: a whole-form *)
(* notification with isSubmitting true and the incremented submitCount;    *)
(* the per-path notifications of the tracked paths whose touched flag      *)
(* flips; the validation pass; the onValid or onInvalid callback; the      *)
(* final whole-form notification with isSubmitting false.  Afterwards      *)
(* every path that was tracked is touched.                                 *)
(***************************************************************************)
C21_SubmitOrder ==
    \A hasOnInvalid \in BOOLEAN : \A callbackThrows \in BOOLEAN :
        LET e == SubmitRun(Store, hasOnInvalid, callbackThrows)
            n == Len(e.log)
            flips == {P \in DOMAIN fields : ~fields[P].isTouched /\ P \in DOMAIN fieldListeners}
            validations == ValidateEvents(e)
            callbacks == OnValidEvents(e) \cup OnInvalidEvents(e)
            before == {i \in 1 .. n : \A v \in validations : i < v}
        IN  /\ listeners # {} =>
                  /\ e.log[1].k = "form"
                  /\ e.log[1].status.isSubmitting
                  /\ e.log[1].status.submitCount = status.submitCount + 1
                  /\ e.log[n].k = "form"
                  /\ ~e.log[n].status.isSubmitting
                  /\ FormEvents(e) = {1, n}
            /\ Cardinality(validations) = IF config.validate THEN 1 ELSE 0
            /\ \A P \in flips :
                  \E i \in FieldEvents(e, P) \cap before :
                      e.log[i].st.isTouched /\ e.log[i].to = fieldListeners[P]
            /\ \A P \in PathSet : \A i \in FieldEvents(e, P) \cap before :
                  P \in flips /\ \A j \in FormEvents(e) \cap before : j < i
            /\ \A c \in callbacks :
                  /\ \A v \in validations : v < c
                  /\ \A P \in PathSet : \A i \in FieldEvents(e, P) : i < c
                  /\ \A j \in FormEvents(e) : j = 1 \/ c < j
            /\ \A P \in DOMAIN fields : FieldOf(e, P).isTouched

\* A submit has completed on a form with whole-form listeners and a
\* subscribed path, which it touched and flagged.
C21_Witness ==
    /\ listeners # {}
    /\ status.submitCount = 1
    /\ ~status.isSubmitting
    /\ submits = 0
    /\ \E P \in DOMAIN fieldListeners :
          P \in DOMAIN fields /\ fields[P].isTouched /\ fields[P].error # NoError

(***************************************************************************)
(* C22: subscribeToField(P, cb) invokes cb exactly once, before it         *)
(* returns, with the record getFieldState(P) returns (created with         *)
(* isTouched false, no error and isDirty computed against the initial      *)
(* value when P was not tracked), and invokes no other listener.           *)
(***************************************************************************)
C22_SubscribeSendsState ==
    \A P \in PathSet : \A cb \in ListenerIds \cup {"other"} :
        LET r == subscribeToField(Store, P, cb)
            state == FieldOf(ensureFieldState(Store, P), P)
        IN  /\ Len(r.log) = 1
            /\ r.log[1].k = "field" /\ r.log[1].path = P
            /\ r.log[1].to = {cb}
            /\ r.log[1].st = state
            /\ FieldOf(r, P) = state
            /\ P \notin DOMAIN fields =>
                  state = [value |-> getValue(Store, P), error |-> NoError,
                           isTouched |-> FALSE, isValid |-> TRUE,
                           isDirty |-> ~deepEqual(getValue(Store, P),
                                                  getByPath(initialValues, P))]
            /\ cb \in r.fieldListeners[P]
            /\ r.listeners = listeners

\* A subscription created the entry of a path that is dirty while other
\* listeners exist.
C22_Witness ==
    /\ listeners # {}
    /\ {<<"a">>, <<"a", "b">>} \subseteq DOMAIN fieldListeners
    /\ {<<"a">>, <<"a", "b">>} \subseteq DOMAIN fields
    /\ fields[<<"a", "b">>].isDirty

\* The events of the trace of s that invoke listener as a listener of path
\* (of the whole form when path is FormHandle).
Invocations(s, path, listener) ==
    {i \in 1 .. Len(s.log) :
        /\ listener \in (IF s.log[i].k \in {"field", "form"} THEN s.log[i].to ELSE {})
        /\ IF path = FormHandle THEN s.log[i].k = "form"
           ELSE s.log[i].k = "field" /\ s.log[i].path = path}

\* The closure c was called and its listener was not subscribed to the same
\* path again afterwards.
Unsubscribed(c) ==
    /\ c \in handles.issued
    /\ c.called
    /\ \A d \in handles.issued : (d.path = c.path /\ d.cb = c.cb) => d.n <= c.n

(***************************************************************************)
(* C23: once the closure returned by subscribe or subscribeToField has     *)
(* been called, no later operation invokes its callback (unless the        *)
(* callback is subscribed again), and the map path -> listeners never      *)
(* holds an empty set.                                                     *)
(***************************************************************************)
C23_UnsubscribeRemoves ==
    /\ \A p \in DOMAIN fieldListeners : fieldListeners[p] # {}
    /\ fieldListeners = ListenersOf(handles)
    /\ \A c \in handles.issued : Unsubscribed(c) =>
          /\ IF c.path = FormHandle THEN c.cb \notin listeners
             ELSE c.path \in DOMAIN fieldListeners => c.cb \notin fieldListeners[c.path]
          /\ \A w \in Writes : Invocations(setValue(Store, w[1], Fresh(Store, w[2])), c.path, c.cb) = {}
          /\ Invocations(reset(Store, FALSE, Undefined), c.path, c.cb) = {}

\* The last listener of a path unsubscribed, while another path keeps a
\* listener and a whole-form listener unsubscribed too.
C23_Witness ==
    /\ \E c \in handles.issued : c.path = <<"a", "b">> /\ Unsubscribed(c)
    /\ \E c \in handles.issued : c.path = FormHandle /\ Unsubscribed(c)
    /\ <<"a", "b">> \notin DOMAIN fieldListeners
    /\ <<"a">> \in DOMAIN fieldListeners

\* The listener invocations of the trace of s, in order.
Notifications(s) == SelectSeq(s.log, LAMBDA e : e.k \in {"field", "form"})

Warnings(s) == {i \in 1 .. Len(s.log) : s.log[i].k = "console.warn"}

\* The store after construction over `item` and, with an asynchronous
\* backend, after the promise of getItem settled.
Loaded(cfg, item) ==
    LET c == construct(cfg, item)
    IN  IF cfg.storage = "async"
        THEN loadSettled(c, IF "getItem" \in cfg.fails THEN Rejected ELSE item)
        ELSE c

(***************************************************************************)
(* C24: a getItem that throws, rejects or delivers text that is not JSON   *)
(* does not make construction throw and leaves the configured              *)
(* initialValues as the current values; a setItem that throws does not     *)
(* make setValue throw, and the values, cache, status and notifications of *)
(* that setValue are those of the same call over a working backend.  This  *)
(* holds in every state, so also after such failures.                      *)
(***************************************************************************)
C24_StorageFailuresCaught ==
    /\ \A item \in StorageItems :
          ("getItem" \in config.fails \/ item = Garbage) =>
              LET c == Loaded(config, item)
              IN  /\ ~Thrown(c)
                  /\ Warnings(c) # {}
                  /\ deepEqual(c.values, config.initialValues)
                  /\ c.status = ZeroStatus
    /\ "setItem" \in config.fails =>
          \A w \in Writes :
              LET r == setValue(Store, w[1], Fresh(Store, w[2]))
                  ok == setValue([Store EXCEPT !.config.fails = {}], w[1], Fresh(Store, w[2]))
              IN  /\ ~Thrown(r)
                  /\ r.values = ok.values
                  /\ r.fields = ok.fields
                  /\ r.status = ok.status
                  /\ Notifications(r) = Notifications(ok)
                  /\ r.stored = stored
                  /\ ValueChanging(Store, w[1], w[2]) =>
                        /\ deepEqual(getValue(r, w[1]), w[2])
                        /\ Warnings(r) # {}

\* Over a backend whose entry was not JSON and whose setItem throws, the
\* load has settled and a setValue has changed the values while a
\* whole-form listener is subscribed.
C24_Witness ==
    /\ config.storage = "async"
    /\ "setItem" \in config.fails
    /\ stored = Garbage
    /\ pendingLoad = Idle
    /\ listeners # {}
    /\ status.isDirty
    /\ ~deepEqual(values, initialValues)

(***************************************************************************)
(* C25: when the backend's removeItem throws, reset does not throw, resets *)
(* the values, the cache and the status to the baseline, and still invokes *)
(* the whole-form listeners once.                                          *)
(***************************************************************************)
C25_ResetRecovers ==
    (config.storage # "none" /\ "removeItem" \in config.fails) =>
        LET r == reset(Store, FALSE, Undefined)
        IN  /\ ~Thrown(r)
            /\ deepEqual(r.values, r.initialValues)
            /\ r.fields = << >>
            /\ r.status = ZeroStatus
            /\ listeners # {} => Cardinality(FormEvents(r)) = 1

\* Serialized trees a backend can hold under the key: no key, one of the
\* top-level keys, both.
StoredTrees ==
    {Obj(0, NoProps), StartItem, Rec1("a", Rec1("b", Prim(2)))}
        \cup {stringify(v) : v \in FullTrees}

\* { ...config.initialValues, ...S } built from copies, so that it shares no
\* object with the trees it is compared with.
MergedOver(S) ==
    LET under == deepClone(config.initialValues, 1 + SetMax(StoreRefs(Store)))
        over == deepClone(S, 1 + SetMax(RefsOf(under)))
    IN  Merge(under, over, 1 + SetMax(RefsOf(over) \cup RefsOf(under)))

(***************************************************************************)
(* C26: when getItem returns a serialized tree S synchronously, the        *)
(* constructed store's values are config.initialValues with the top-level  *)
(* keys of S written over them, its dirty baseline is config.initialValues *)
(* and its isDirty is the negation of deepEqual(values, baseline).         *)
(***************************************************************************)
C26_SyncLoadMerges ==
    (config.storage = "sync" /\ "getItem" \notin config.fails) =>
        \A S \in StoredTrees :
            LET c == construct(config, S)
                merged == MergedOver(S)
            IN  /\ deepEqual(c.values, merged)
                /\ \A k \in DOMAIN S.props : deepEqual(Prop(c.values, k), S.props[k])
                /\ \A k \in Keys \ DOMAIN S.props :
                      deepEqual(Prop(c.values, k), Prop(config.initialValues, k))
                /\ deepEqual(c.initialValues, config.initialValues)
                /\ c.status.isDirty = ~deepEqual(merged, config.initialValues)

\* The store as constructed over the entry {b: 2}: b comes from the entry,
\* a from the configuration, and the form is dirty.
C26_Witness ==
    /\ config.storage = "sync" /\ "getItem" \notin config.fails
    /\ deepEqual(values, MergedOver(StartItem))
    /\ deepEqual(initialValues, config.initialValues)
    /\ status.isDirty
    /\ fields = << >>
    /\ listeners = {}

SaveCalls(s) == {i \in 1 .. Len(s.log) : s.log[i].k = "save"}

RemoveCalls(s) == {i \in 1 .. Len(s.log) : s.log[i].k = "remove"}

(***************************************************************************)
(* C27: with a backend configured, a setValue that changes the value and   *)
(* every setFullValues call setItem once with the serialization of the     *)
(* values after the write, a setValue that changes nothing makes no        *)
(* storage call, and reset calls removeItem; with a synchronous backend    *)
(* none of whose calls failed (an entry that is not JSON counts as a       *)
(* failed read) the entry, when present, is the serialization of the       *)
(* current values.                                                         *)
(***************************************************************************)
C27_StoredFollowsValues ==
    /\ config.storage # "none" =>
          /\ \A w \in Writes :
                LET r == setValue(Store, w[1], Fresh(Store, w[2]))
                IN  IF ~ValueChanging(Store, w[1], w[2])
                    THEN r.log = << >> /\ r.stored = stored
                    ELSE /\ Cardinality(SaveCalls(r)) = 1
                         /\ RemoveCalls(r) = {}
                         /\ deepEqual(getValue(r, w[1]), w[2])
                         /\ \A i \in SaveCalls(r) : r.log[i].item = stringify(r.values)
                         /\ "setItem" \notin config.fails => r.stored = stringify(r.values)
          /\ \A newValues \in FullTrees :
                LET r == setFullValues(Store, Fresh(Store, newValues))
                IN  /\ Cardinality(SaveCalls(r)) = 1
                    /\ RemoveCalls(r) = {}
                    /\ deepEqual(r.values, newValues)
                    /\ \A i \in SaveCalls(r) : r.log[i].item = stringify(r.values)
                    /\ "setItem" \notin config.fails => r.stored = stringify(r.values)
          /\ LET r == reset(Store, FALSE, Undefined)
             IN  /\ Cardinality(RemoveCalls(r)) = 1
                 /\ SaveCalls(r) = {}
                 /\ "removeItem" \notin config.fails => r.stored = NoItem
    /\ (config.storage = "sync" /\ config.fails = {} /\ stored \notin {NoItem, Garbage}) =>
          stored = stringify(values)

\* A write since construction or the last reset left an entry that is
\* neither the one found at construction nor the one construction wrote.
C27_Witness ==
    /\ config.storage = "sync" /\ config.fails = {}
    /\ fields # << >>
    /\ stored = stringify(values)
    /\ stored # StartItem
    /\ stored # stringify(MergedOver(StartItem))
    /\ stored # stringify(config.initialValues)

\* The storage calls in the trace of s.
StorageCalls(s) == {i \in 1 .. Len(s.log) : s.log[i].k \in {"get", "save", "remove"}}

\* Every storage call in the trace of s uses key.
UsesKey(s, key) == \A i \in StorageCalls(s) : s.log[i].key = key

(***************************************************************************)
(* C28: getItem at load, setItem at save and removeItem at reset all use   *)
(* config.storageKey when it is configured, and otherwise one key derived  *)
(* from the serialized initial values.                                     *)
(***************************************************************************)
C28_UsesStorageKey ==
    config.storage # "none" =>
        LET key == IF config.storageKey # Undefined THEN config.storageKey
                   ELSE StorageKey("ghost-form-", <<JsonLength(stringify(config.initialValues))>>)
        IN  /\ \A item \in StorageItems : UsesKey(construct(config, item), key)
            /\ \A w \in Writes : UsesKey(setValue(Store, w[1], Fresh(Store, w[2])), key)
            /\ \A newValues \in FullTrees : UsesKey(setFullValues(Store, Fresh(Store, newValues)), key)
            /\ UsesKey(reset(Store, FALSE, Undefined), key)

\* The per-path listener invocations in the trace of s.
AllFieldEvents(s) == {i \in 1 .. Len(s.log) : s.log[i].k = "field"}

(***************************************************************************)
(* C29: in a setValue that changes the value, every per-path listener      *)
(* invocation precedes the invocation of the whole-form listeners, the     *)
(* whole-form listeners are invoked exactly once, and the storage write    *)
(* comes after both.                                                       *)
(***************************************************************************)
C29_SetValueOrder ==
    \A w \in Writes :
        LET P == w[1]
            r == setValue(Store, P, Fresh(Store, w[2]))
        IN  ValueChanging(Store, P, w[2]) =>
                /\ \A i \in AllFieldEvents(r) : \A j \in FormEvents(r) : i < j
                /\ listeners # {} => Cardinality(FormEvents(r)) = 1
                /\ \A p \in (DOMAIN fieldListeners) \cap {P} : FieldEvents(r, p) # {}
                /\ config.storage # "none" =>
                      /\ Cardinality(SaveCalls(r)) = 1
                      /\ \A k \in SaveCalls(r) :
                            \A i \in AllFieldEvents(r) \cup FormEvents(r) : i < k

\* A setValue has changed a.b while a.b, its parent a and the whole form
\* have listeners and a backend is configured.
C29_Witness ==
    /\ config.storage = "sync"
    /\ listeners # {}
    /\ {<<"a">>, <<"a", "b">>} \subseteq DOMAIN fieldListeners
    /\ {<<"a">>, <<"a", "b">>} \subseteq DOMAIN fields
    /\ fields[<<"a", "b">>].isDirty
    /\ fields[<<"a", "b">>].error # NoError
    /\ stored = stringify(values)

(***************************************************************************)
(* C30: setFullValues(newTree) installs newTree as the current tree,       *)
(* invokes the whole-form listeners before any per-path listener, and then *)
(* invokes the listeners of every tracked path.                            *)
(***************************************************************************)
C30_SetFullValuesOrder ==
    \A newValues \in FullTrees :
        LET tree == Fresh(Store, newValues)
            r == setFullValues(Store, tree)
        IN  /\ r.values = tree
            /\ \A j \in FormEvents(r) : \A i \in AllFieldEvents(r) : j < i
            /\ listeners # {} => Cardinality(FormEvents(r)) = 1
            /\ \A P \in (DOMAIN fields) \cap (DOMAIN fieldListeners) :
                  \E i \in FieldEvents(r, P) : \A j \in FormEvents(r) : j < i

\* The objects of a tree.
RECURSIVE Nodes(_)
Nodes(v) ==
    IF IsObj(v) THEN {v} \cup UNION {Nodes(v.props[k]) : k \in DOMAIN v.props} ELSE {}

\* Neither path is the other or a prefix of the other.
Unrelated(P, Q) == P # Q /\ ~IsPrefix(P, Q) /\ ~IsPrefix(Q, P)

(***************************************************************************)
(* C34: for every tree T, path P and value V, with R the result of         *)
(* setByPathImmutable(T, P, V): R holds V at P; every path that is neither *)
(* a prefix nor an extension of P resolves in R to what it resolves to in  *)
(* T; no object of T is changed; and R is T itself when T already holds    *)
(* the identical value at P.                                               *)
(***************************************************************************)
C34_SetByPath ==
    \A P \in PathPaths : \A V \in PathValues(values, P) :
        LET R == SetAt(values, P, V)
        IN  /\ StrictEq(getByPath(R, P), V)
            /\ \A Q \in PathPaths :
                  Unrelated(P, Q) => StrictEq(getByPath(R, Q), getByPath(values, Q))
            /\ \A n \in Nodes(R) : \A m \in Nodes(values) : n.ref = m.ref => n = m
            /\ StrictEq(getByPath(values, P), V) => R = values

(***************************************************************************)
(* C35: a call of an unsubscribe closure, the first or a repeated one,     *)
(* removes no listener other than its own: every other listener of the     *)
(* same path, also one registered after the path's set was emptied and     *)
(* created again, every listener of another path and every other           *)
(* whole-form listener stays registered.                                   *)
(***************************************************************************)
C35_UnsubscribeIsolated ==
    \A c \in handles.issued :
        LET r == callHandle(Store, handles, c).s
        IN  /\ \A l \in listeners : (c.path # FormHandle \/ l # c.cb) => l \in r.listeners
            /\ \A p \in DOMAIN fieldListeners : \A l \in fieldListeners[p] :
                  (p # c.path \/ l # c.cb) =>
                      p \in DOMAIN r.fieldListeners /\ l \in r.fieldListeners[p]

(***************************************************************************)
(* C36: while a handleSubmit call has started and not completed (it is     *)
(* suspended at the await of onValid), status.isSubmitting is true, also   *)
(* after a reset or the completion of another call in the meantime.        *)
(***************************************************************************)
C36_SubmittingWhilePending == submits > 0 => status.isSubmitting

(***************************************************************************)
(* C40: after every operation, the cached error of every tracked path is   *)
(* the entry of that path in status.errors (both absent or the same        *)
(* message), also for a path first read after the last validation pass,    *)
(* and status.isValid is false when some tracked field is not valid.       *)
(***************************************************************************)
C40_FieldAndFormAgree ==
    /\ \A P \in DOMAIN fields : fields[P].error = ErrorAt(status.errors, P)
    /\ (\E P \in DOMAIN fields : ~fields[P].isValid) => ~status.isValid

\* The promise of the construction-time getItem is pending and will deliver
\* a serialized tree.
LoadPending == pendingLoad \notin {Idle, NoItem, Rejected, Garbage}

(***************************************************************************)
(* C31: when the promise of the construction-time getItem settles with a   *)
(* stored tree, the values become initialValues with the top-level keys of *)
(* the stored tree written over them, the whole-form listeners subscribed  *)
(* by then are invoked, and so are the per-path listeners of every tracked *)
(* path.                                                                   *)
(***************************************************************************)
C31_AsyncLoadMergesAndNotifies ==
    LoadPending =>
        LET r == loadSettled(Store, pendingLoad)
        IN  /\ \A k \in Keys :
                  deepEqual(Prop(r.values, k),
                            IF k \in DOMAIN pendingLoad.props THEN pendingLoad.props[k]
                            ELSE Prop(initialValues, k))
            /\ listeners # {} => \E i \in FormEvents(r) : r.log[i].to = listeners
            /\ \A P \in (DOMAIN fields) \cap (DOMAIN fieldListeners) :
                  \E i \in FieldEvents(r, P) : r.log[i].to = fieldListeners[P]

\* The load of a working asynchronous backend has settled on a store with a
\* whole-form listener and a listener on the tracked path a.b.
C31_Witness ==
    /\ config.storage = "async" /\ config.fails = {}
    /\ pendingLoad = Idle
    /\ listeners # {}
    /\ <<"a", "b">> \in (DOMAIN fields) \cap (DOMAIN fieldListeners)
    /\ deepEqual(getByPath(values, <<"b">>), Prim(2))
    /\ stored = stringify(values)

(***************************************************************************)
(* C37: the settling of the construction-time load does not undo what the  *)
(* caller did while it was pending: a value written by setValue is still   *)
(* the value at its path, and after a reset the values are still the       *)
(* baseline and the storage entry is still removed.                        *)
(***************************************************************************)
C37_LoadKeepsLaterCalls ==
    LoadPending =>
        /\ \A w \in Writes :
              LET written == setValue(Store, w[1], Fresh(Store, w[2]))
                  r == loadSettled([written EXCEPT !.log = << >>], pendingLoad)
              IN  ValueChanging(Store, w[1], w[2]) => deepEqual(getValue(r, w[1]), w[2])
        /\ LET cleared == reset(Store, FALSE, Undefined)
               r == loadSettled([cleared EXCEPT !.log = << >>], pendingLoad)
           IN  ~Thrown(cleared) =>
                   /\ deepEqual(r.values, cleared.initialValues)
                   /\ r.stored = NoItem

(***************************************************************************)
(* C32: when the validation function throws, the exception leaves every    *)
(* operation that runs validation: setValue in the modes onChange and all, *)
(* setBlur in the modes onBlur and all, setFullValues, handleSubmit, and   *)
(* the constructor in mode all or over a backend that delivers a stored    *)
(* tree.                                                                   *)
(***************************************************************************)
C32_ValidatorThrowPropagates ==
    (config.validate /\ config.throws) =>
        /\ \A w \in Writes :
              (ValidatesOnChange(Store) /\ ValueChanging(Store, w[1], w[2])) =>
                  Thrown(setValue(Store, w[1], Fresh(Store, w[2])))
        /\ \A P \in BlurPaths :
              (ValidatesOnBlur(Store) /\ ~FieldOf(ensureFieldState(Store, P), P).isTouched) =>
                  Thrown(setBlur(Store, P))
        /\ \A newValues \in FullTrees : Thrown(setFullValues(Store, Fresh(Store, newValues)))
        /\ \A hasOnInvalid \in BOOLEAN : Thrown(handleSubmit(Store, hasOnInvalid, FALSE))
        /\ Thrown(construct([config EXCEPT !.mode = "all", !.storage = "none"], NoItem))
        /\ config.storage = "sync" => Thrown(construct(config, StartItem))

(***************************************************************************)
(* C38: at every listener invocation made during setValue, per-path or     *)
(* whole-form, the store the listener can read is consistent: the cached   *)
(* value of every tracked path, the written one included, equals           *)
(* getValue of that path, and status.isDirty is the negation of            *)
(* deepEqual(values, initialValues).                                       *)
(***************************************************************************)
C38_ListenersSeeConsistentStore ==
    \A w \in Writes :
        LET r == setValue(Store, w[1], Fresh(Store, w[2]))
        IN  \A i \in AllFieldEvents(r) \cup FormEvents(r) :
                LET seen == r.log[i].seen
                IN  /\ \A P \in DOMAIN seen.fields :
                          deepEqual(seen.fields[P].value, getByPath(seen.values, P))
                    /\ seen.status.isDirty = ~deepEqual(seen.values, r.initialValues)

\* The operations on the store that make no call into reset: their results
\* from the current state, for every input of the model.
FieldRuns ==
    {ensureFieldState(Store, P) : P \in PathSet}
        \cup {setValue(Store, w[1], Fresh(Store, w[2])) : w \in Writes}
        \cup {setBlur(Store, P) : P \in PathSet}
        \cup {setFullValues(Store, Fresh(Store, newValues)) : newValues \in FullTrees}
        \cup {subscribeToField(Store, P, listener) : P \in PathSet, listener \in ListenerIds}
        \cup {handleSubmitBegin(Store)}

(***************************************************************************)
(* C33: field-state records are replaced, never mutated.  Through every    *)
(* operation, a record the map still holds under the identity it had       *)
(* before has the contents it had before, so every change of a path's      *)
(* state is a new record; a record passed to a listener has the same       *)
(* contents whenever the same record is passed again or is still in the    *)
(* map at the end; and a second getFieldState right after a first returns  *)
(* the identical record.                                                   *)
(***************************************************************************)
C33_RecordsReplaced ==
    /\ \A r \in FieldRuns :
          /\ \A P \in DOMAIN fields \cap DOMAIN r.fields :
                IdOf(r, P) = 0 => r.fields[P] = fields[P]
          /\ \A i \in AllFieldEvents(r) :
                /\ \A j \in AllFieldEvents(r) :
                      (r.log[j].path = r.log[i].path /\ r.log[j].rid = r.log[i].rid)
                          => r.log[j].st = r.log[i].st
                /\ IdOf(r, r.log[i].path) = r.log[i].rid
                      => r.fields[r.log[i].path] = r.log[i].st
    /\ \A P \in PathSet :
          LET s1 == ensureFieldState(Store, P)
              s2 == ensureFieldState(s1, P)
          IN  IdOf(s2, P) = IdOf(s1, P) /\ FieldOf(s2, P) = FieldOf(s1, P)

\* A tracked path's record was replaced by a write and passed to its
\* listener.
C33_Witness ==
    \E w \in Writes : \E P \in DOMAIN fields :
        LET r == setValue(Store, w[1], Fresh(Store, w[2]))
        IN  /\ IdOf(r, P) # 0
            /\ r.fields[P] # fields[P]
            /\ \E i \in FieldEvents(r, P) : r.log[i].rid = IdOf(r, P)

\* The listener l holds a subscription of path P: a closure of
\* subscribeToField(P, l) was issued and no closure of that pair was called.
Subscribed(P, l) ==
    /\ P # FormHandle
    /\ \E c \in handles.issued : c.path = P /\ c.cb = l
    /\ \A c \in handles.issued : (c.path = P /\ c.cb = l) => ~c.called

(***************************************************************************)
(* C39: no change of a subscribed path's record goes unnotified.  For a    *)
(* listener that holds a subscription of a tracked path P (a subscribed    *)
(* path stays tracked as long as there is no reset), every setValue that   *)
(* replaces the record of P invokes the listener, and the record of its    *)
(* last invocation is the identical record getFieldState(P) returns        *)
(* afterwards.                                                             *)
(***************************************************************************)
C39_NoChangeUnnotified ==
    \A P \in DOMAIN fields : \A l \in HandleListeners :
        Subscribed(P, l) =>
            \A w \in Writes :
                LET r == setValue(Store, w[1], Fresh(Store, w[2]))
                    mine == {i \in FieldEvents(r, P) : l \in r.log[i].to}
                IN  IdOf(r, P) # 0 =>
                        /\ mine # {}
                        /\ r.log[SetMax(mine)].rid = IdOf(r, P)
                        /\ r.log[SetMax(mine)].st = FieldOf(r, P)

====
